---- MODULE Spec2Model ----
(***************************************************************************)
(* Session Timing & Task Sequencing Engine of the dissertation study app.  *)
(*                                                                         *)
(*   - the timer object made by createTimer()        (client bundle)       *)
(*   - the deterministic sequencer                   (tasks.js)            *)
(*   - the client session store                      (client bundle)       *)
(*   - the Apps Script backend aggregator            (google-apps-script)  *)
(*                                                                         *)
(* Times are milliseconds.  A JavaScript null / 0 / "" that the code only  *)
(* tests for truthiness is modelled as 0 (Date.now() is never 0).          *)
(***************************************************************************)
EXTENDS Integers, Sequences, FiniteSets, TLC

VARIABLES
  now,        \* Date.now()
  hidden,     \* document.hidden
  timer,      \* the object returned by createTimer()
  live,       \* ids of the setInterval callbacks still scheduled for timer
  starts,     \* number of start() calls so far
  steps,      \* number of calls made on the timer since construction
  prompts,    \* number of onInactivity() calls the timer has made
  rng,        \* closure variable of the generator made by the last shuffle
  built,      \* the sessions created so far: code, device, seed, sequence
  state,      \* the client's global session object
  dbOn,       \* window.db is set (primary document store configured)
  sheetsOn,   \* CONFIG.SHEETS_URL is set (legacy sheet store configured)
  dbDocs,     \* primary store: collection 'sessions', per code
  dbPending,  \* primary store writes whose promise has not settled yet
  localStore, \* localStorage: study_<code> entries and recent_session
  net,        \* requests posted to the sheet backend and not yet handled
  sheet,      \* the spreadsheet: Sessions rows, Task Progress, Session Events
  lastReq,    \* the request the backend handled last
  lastResp,   \* the response doPost gave to it
  served,     \* number of requests and repair runs the backend has handled
  lock,       \* the execution holding the document lock, 0 when it is free
  pc,         \* per execution: the index of its next instruction, 0 when idle
  handler,    \* per execution: the request it is handling
  lastSave,   \* which backend writes the last saveState() attempted
  lastResume, \* what the last resumeSession() consulted and concluded
  created,    \* the session object as createNewSession saved it
  sessionTimer, \* the client's session-wide timer (timer is its task timer)
  storageFull, \* localStorage.setItem throws in this browser
  lastOp,     \* the last client operation
  ops         \* number of client operations so far

timerVars == <<now, hidden, timer, live, starts, steps, prompts>>
seqVars == <<rng, built>>
clientVars == <<state, dbOn, sheetsOn, dbDocs, dbPending, localStore, net,
                sessionTimer, storageFull, lastSave, lastResume, created, lastOp, ops>>
serverVars == <<sheet, lastReq, lastResp, served, lock, pc, handler>>
lockVars == <<lock, pc, handler>>

vars == <<timerVars, seqVars, clientVars, serverVars>>

(***************************************************************************)
(* Bounds of the timer harness                                             *)
(***************************************************************************)
MaxSteps == 5
MaxStarts == 2

\* clock advances between two calls
Deltas == {0, 1, 5000, 120001}

\* pause reasons passed by pauseStudy and the blur listener (saveAndExit passes
\* "exit", which the timer treats exactly as "blur");
\* "visibility" comes from the visibilitychange listener, "inactivity" from tick
CallerReasons == {"manual", "blur"}

RECENT_MS == 5000
INACTIVITY_MS == 120000

Min(a, b) == IF a < b THEN a ELSE b
Max(a, b) == IF a > b THEN a ELSE b

(***************************************************************************)
(* createTimer()                                                           *)
(***************************************************************************)
CreateTimer ==
  [ startTime |-> 0, endTime |-> 0, activeTime |-> 0, lastActivity |-> 0,
    isPaused |-> FALSE, pauseReason |-> "null", pauseCount |-> 0,
    inactivityTime |-> 0, pausedTime |-> 0, pauseStart |-> 0,
    lastTick |-> 0, intervalId |-> 0 ]

\* start(): resets the accumulators; endTime is not reset.  id is the handle
\* setInterval returns.
TimerStart(t, n, id) ==
  [ t EXCEPT !.startTime = n, !.lastActivity = n, !.lastTick = n,
             !.activeTime = 0, !.inactivityTime = 0, !.pausedTime = 0,
             !.pauseCount = 0, !.isPaused = FALSE, !.pauseStart = 0,
             !.intervalId = id ]

\* a variant of pause(reason) without the isPaused guard
TimerPauseUnguarded(t, n, reason) ==
  [ t EXCEPT !.isPaused = TRUE, !.pauseReason = reason,
             !.pauseCount = @ + 1, !.pauseStart = n ]

\* pause(reason)
TimerPause(t, n, reason) ==
  IF ~t.isPaused
    THEN [ t EXCEPT !.isPaused = TRUE, !.pauseReason = reason,
                    !.pauseCount = @ + 1, !.pauseStart = n ]
    ELSE t

\* resume() counting the pause whatever its reason
TimerResumeAnyReason(t, n) ==
  IF t.isPaused
    THEN [ t EXCEPT !.pausedTime =
                       IF t.pauseStart # 0 THEN @ + (n - t.pauseStart) ELSE @,
                    !.isPaused = FALSE, !.pauseReason = "null",
                    !.lastActivity = n, !.lastTick = n ]
    ELSE t

\* resume()
TimerResume(t, n) ==
  IF t.isPaused
    THEN [ t EXCEPT !.pausedTime =
                       IF t.pauseReason = "manual" /\ t.pauseStart # 0
                         THEN @ + (n - t.pauseStart) ELSE @,
                    !.isPaused = FALSE, !.pauseReason = "null",
                    !.lastActivity = n, !.lastTick = n ]
    ELSE t

\* tick() measuring inactivity from the last tick instead of the last activity
TimerTickSinceTick(t, n, hid) ==
  LET timeSinceTick == n - t.lastTick
      t1 == IF ~hid /\ ~t.isPaused
              THEN IF timeSinceTick > INACTIVITY_MS
                     THEN TimerPause(t, n, "inactivity")
                     ELSE IF timeSinceTick < RECENT_MS
                            THEN [t EXCEPT !.activeTime = @ + timeSinceTick]
                            ELSE [t EXCEPT !.inactivityTime = @ + timeSinceTick]
              ELSE IF t.isPaused /\ t.pauseReason = "inactivity"
                     THEN [t EXCEPT !.inactivityTime = @ + (n - t.lastTick)]
                     ELSE t
  IN  [t1 EXCEPT !.lastTick = n]

\* tick(): hid is document.hidden
TimerTick(t, n, hid) ==
  LET timeSinceLastActivity == n - t.lastActivity
      timeSinceTick == n - t.lastTick
      t1 == IF ~hid /\ ~t.isPaused
              THEN IF timeSinceLastActivity > INACTIVITY_MS
                     THEN TimerPause(t, n, "inactivity")
                     ELSE IF timeSinceLastActivity < RECENT_MS
                            THEN [t EXCEPT !.activeTime = @ + timeSinceTick]
                            ELSE [t EXCEPT !.inactivityTime = @ + timeSinceTick]
              ELSE IF t.isPaused /\ t.pauseReason = "inactivity"
                     THEN [t EXCEPT !.inactivityTime = @ + (n - t.lastTick)]
                     ELSE t
  IN  [t1 EXCEPT !.lastTick = n]

\* a variant of recordActivity() that resumes whatever the pause reason
TimerRecordActivityAnyPause(t, n) ==
  LET t1 == [t EXCEPT !.lastActivity = n]
  IN  IF t1.isPaused THEN TimerResumeAnyReason(t1, n) ELSE t1

\* recordActivity()
TimerRecordActivity(t, n) ==
  LET t1 == [t EXCEPT !.lastActivity = n]
  IN  IF t1.isPaused /\ t1.pauseReason = "inactivity"
        THEN TimerResume(t1, n) ELSE t1

\* stop(): clearInterval is modelled on the variable live by the caller
TimerStop(t, n) ==
  [ t EXCEPT !.pausedTime =
                IF t.isPaused /\ t.pauseStart # 0 /\ t.pauseReason = "manual"
                  THEN @ + (n - t.pauseStart) ELSE @,
             !.endTime = n ]

\* Math.round for a quotient p/q with q > 0: the nearest integer, halves up
RoundDiv(p, q) == (2 * p + q) \div (2 * q)

\* the value Math.round(x * (elapsed / total)) of the scaling branch
ScaleRound(x, elapsed, total) == RoundDiv(x * elapsed, total)

\* getSummary() read at time n
GetSummary(t, n) ==
  LET elapsed == (IF t.endTime # 0 THEN t.endTime ELSE n) - t.startTime
      active == Min(t.activeTime, elapsed)
      paused == Min(t.pausedTime, elapsed)
      inactive == Min(t.inactivityTime, elapsed)
      total == active + paused + inactive
  IN  IF total > elapsed
        THEN [ elapsed |-> elapsed,
               active |-> ScaleRound(active, elapsed, total),
               pauseCount |-> t.pauseCount,
               paused |-> ScaleRound(paused, elapsed, total),
               inactive |-> ScaleRound(inactive, elapsed, total),
               scaled |-> TRUE ]
        ELSE [ elapsed |-> elapsed, active |-> active,
               pauseCount |-> t.pauseCount, paused |-> paused,
               inactive |-> inactive, scaled |-> FALSE ]

(***************************************************************************)
(* 32-bit machine words.  A word is <<hi, lo>> with 16-bit halves, so that *)
(* no intermediate value leaves the model checker's integer range.         *)
(***************************************************************************)
W16 == 65536

Word(hi, lo) == <<hi, lo>>
WordOfNat(n) == <<(n \div W16) % W16, n % W16>>

RECURSIVE Xor16(_, _, _)
\* bitwise exclusive or of the low bits-many bits of x and y
Xor16(x, y, bits) ==
  IF bits = 0 THEN 0
  ELSE ((x + y) % 2) + 2 * Xor16(x \div 2, y \div 2, bits - 1)

RECURSIVE Or16(_, _, _)
Or16(x, y, bits) ==
  IF bits = 0 THEN 0
  ELSE (IF x % 2 = 1 \/ y % 2 = 1 THEN 1 ELSE 0)
         + 2 * Or16(x \div 2, y \div 2, bits - 1)

XorW(a, b) == <<Xor16(a[1], b[1], 16), Xor16(a[2], b[2], 16)>>
OrW(a, b) == <<Or16(a[1], b[1], 16), Or16(a[2], b[2], 16)>>

\* a + b modulo 2^32
AddW(a, b) ==
  LET lo == a[2] + b[2]
  IN  <<(a[1] + b[1] + lo \div W16) % W16, lo % W16>>

Pow2(k) == IF k = 0 THEN 1 ELSE IF k = 7 THEN 128 ELSE IF k = 14 THEN 16384
           ELSE IF k = 15 THEN 32768 ELSE IF k = 9 THEN 512
           ELSE IF k = 2 THEN 4 ELSE IF k = 1 THEN 2
           ELSE IF k = 5 THEN 32 ELSE 0

\* a >>> k for the shift counts the generator uses (7, 14, 15)
ShrW(a, k) ==
  <<a[1] \div Pow2(k),
    (a[2] \div Pow2(k)) + (a[1] % Pow2(k)) * Pow2(16 - k)>>

\* x * y modulo 2^16, for 16-bit x and y
MulMod16(x, y) ==
  ((x % 256) * y + (((x \div 256) * y) % 256) * 256) % W16

\* Math.imul(a, b): the low 32 bits of the product
ImulW(a, b) ==
  LET p0 == (a[2] % 256) * b[2]
      p1 == (a[2] \div 256) * b[2]
      low == p0 + (p1 % 256) * 256
      carry == low \div W16 + p1 \div 256
  IN  <<(carry + MulMod16(a[1], b[2]) + MulMod16(a[2], b[1])) % W16,
        low % W16>>

\* two's complement negation
NegW(a) ==
  <<(65535 - a[1] + (IF a[2] = 0 THEN 1 ELSE 0)) % W16, (W16 - a[2]) % W16>>

IsNegW(a) == a[1] >= 32768

\* Math.abs(x) followed by the |0 that mulberry32 applies to its seed
AbsW(a) == IF IsNegW(a) THEN NegW(a) ELSE a

(***************************************************************************)
(* tasks.js: the deterministic sequencer                                   *)
(***************************************************************************)
DESKTOP_TASKS == <<"RC", "MRT", "ASLCT", "VCN", "SN", "ID">>
MOBILE_TASKS == <<"RC", "MRT", "ASLCT", "SN", "ID">>
TaskCodes == {"RC", "MRT", "ASLCT", "VCN", "SN", "ID", "DEMO"}

\* a << k on a 32-bit word
ShlW(a, k) ==
  <<(a[1] * Pow2(k) + (a[2] * Pow2(k)) \div W16) % W16,
    (a[2] * Pow2(k)) % W16>>

RECURSIVE HashFromShiftOnly(_, _, _)
\* a variant of the loop that leaves out the subtraction of hash
HashFromShiftOnly(str, i, hash) ==
  IF i > Len(str) THEN hash
  ELSE HashFromShiftOnly(str, i + 1, AddW(ShlW(hash, 5), <<0, str[i]>>))

RECURSIVE HashFrom(_, _, _)
\* the loop of hashCode from index i with the running value hash:
\* hash = (hash << 5) - hash + c; hash |= 0
HashFrom(str, i, hash) ==
  IF i > Len(str) THEN hash
  ELSE HashFrom(str, i + 1,
                AddW(AddW(ShlW(hash, 5), NegW(hash)), <<0, str[i]>>))

\* hashCode(str): str is the sequence of the string's char codes
hashCode(str) == HashFrom(str, 1, <<0, 0>>)

MULBERRY_INC == <<27947, 31221>>   \* 0x6D2B79F5

\* mulberry32: the closure variable a after one call
MulberryStep(a) == AddW(a, MULBERRY_INC)

\* mulberry32: the 32-bit value of one call, before the division by 2^32;
\* a is the closure variable after MulberryStep
MulberryOut(a) ==
  LET t1 == ImulW(XorW(a, ShrW(a, 15)), OrW(<<0, 1>>, a))
      t2 == XorW(t1, AddW(t1, ImulW(XorW(t1, ShrW(t1, 7)), OrW(<<0, 61>>, t1))))
  IN  XorW(t2, ShrW(t2, 14))

\* Math.floor(rng() * n) for the value u of MulberryOut and 1 <= n <= 8
FloorScale(u, n) == (u[1] * n + (u[2] * n) \div W16) \div W16

\* a swap that loses the element at i
SwapOverwrite(a, i, j) == [a EXCEPT ![i] = a[j]]

\* [a[i], a[j]] = [a[j], a[i]]
Swap(a, i, j) == [a EXCEPT ![i] = a[j], ![j] = a[i]]

RECURSIVE ShuffleFrom(_, _, _)
\* the loop of shuffleWithSeed at 0-based index i, with closure variable rs
ShuffleFrom(a, i, rs) ==
  IF i <= 0 THEN a
  ELSE LET rs1 == MulberryStep(rs)
           j == FloorScale(MulberryOut(rs1), i + 1)
       IN  ShuffleFrom(Swap(a, i + 1, j + 1), i - 1, rs1)

\* one generator kept across calls instead of a new closure per call
mulberry32_shared(seed) == IF built = <<>> THEN seed ELSE rng

\* mulberry32(seed): the closure variable a of the generator it returns; every
\* call makes a new closure
mulberry32(seed) == seed

shuffleWithSeed(array, seed) ==
  ShuffleFrom(array, Len(array) - 1, mulberry32(seed))

\* a variant that appends DEMO without removing the stored occurrences
ensureDemographicsAppended(sequence) ==
  Append(sequence, "DEMO")

ensureDemographicsLast(sequence) ==
  Append(SelectSeq(sequence, LAMBDA code : code # "DEMO"), "DEMO")

(***************************************************************************)
(* createNewSession: the code, the seed and the sequence                   *)
(***************************************************************************)
CODE_LEN == 8
VarChars == 2
MaxBuilds == 2

\* char codes of "ABCDEFGH"; the codes the model draws keep its tail
CodeBase == <<65, 66, 67, 68, 69, 70, 71, 72>>
\* the characters the first VarChars positions of a code range over: A B 0
CodeChars == {65, 66, 48}

\* results of generateCode() the model draws from
Codes ==
  { [i \in 1..CODE_LEN |-> IF i <= VarChars THEN head[i] ELSE CodeBase[i]] :
    head \in [1..VarChars -> CodeChars] }

\* const seed = Math.abs(hashCode(state.sessionCode))
SeedOf(code) == AbsW(hashCode(code))

DeviceTasks(mobile) == IF mobile THEN MOBILE_TASKS ELSE DESKTOP_TASKS

\* state.sequence as createNewSession leaves it
BuildSequence(code, mobile) ==
  ensureDemographicsLast(shuffleWithSeed(DeviceTasks(mobile), SeedOf(code)))

RECURSIVE RngAfter(_, _)
\* the closure variable after k calls of the generator
RngAfter(rs, k) == IF k = 0 THEN rs ELSE RngAfter(MulberryStep(rs), k - 1)

\* absent values of documents, cells and history records
NoDoc == [exists |-> FALSE]
EmptyCell == [kind |-> "empty"]
NoSave == [done |-> FALSE]
NoResume == [done |-> FALSE]

\* JSON.stringify of the session object, and JSON.parse of that text
JsonStringify(st) == [kind |-> "json", body |-> st]
JsonParse(cell) == cell.body

(***************************************************************************)
(* google-apps-script: the spreadsheet and the functions that read and     *)
(* write it.  A timestamp cell holds 0 when it is empty or unparseable and *)
(* the instant in ms otherwise (parseTsMs_ of the ISO text written there). *)
(***************************************************************************)
\* session codes the client scenarios use: "ABCDEFGH" and "A0CDEFGH"
SessionCodes == { [CodeBase EXCEPT ![2] = ch] : ch \in {66, 48} }


\* getStandardTaskName(taskCode)
getStandardTaskName(taskCode) ==
  CASE taskCode = "RC" -> "Reading Comprehension Task"
    [] taskCode = "MRT" -> "Mental Rotation Task"
    [] taskCode = "ASLCT" -> "ASL Comprehension Test"
    [] taskCode = "VCN" -> "Virtual Campus Navigation"
    [] taskCode = "SN" -> "Spatial Navigation"
    [] taskCode = "ID" -> "Image Description"
    [] taskCode = "DEMO" -> "Demographics Survey"
    [] OTHER -> taskCode

\* normalizeTaskName_(name)
normalizeTaskName_(name) ==
  CASE name = "Reading Comprehension (RC)" -> "Reading Comprehension Task"
    [] name = "RC" -> "Reading Comprehension Task"
    [] name = "MRT" -> "Mental Rotation Task"
    [] name = "Virtual Campus" -> "Virtual Campus Navigation"
    [] name = "Spatial Nav" -> "Spatial Navigation"
    [] name = "Image Desc" -> "Image Description"
    [] OTHER -> name

\* a Sessions row that findRowBySessionCode_ does not find
NoRow ==
  [ exists |-> FALSE, created |-> 0, lastActivity |-> 0, totalMin |-> 0,
    activeMin |-> 0, idleMin |-> 0, pausedMin |-> 0, done |-> 0, total |-> 0,
    status |-> "", mobile |-> FALSE, stateJSON |-> EmptyCell ]

\* the spreadsheet of a deployment; ready: the four required sheets exist,
\* eegCols: the EEG columns exist, timerRows: rows of the Session Timer sheet,
\* sharedKey: the script property SHARED_KEY ("" when it is not set)
EmptySheet(ready, key) ==
  [ ready |-> ready, eegCols |-> FALSE, sharedKey |-> key,
    rows |-> [c \in SessionCodes |-> NoRow],
    progress |-> <<>>, events |-> <<>>, timerRows |-> 0 ]

\* the fields of a request body; absent fields are 0 / "" / FALSE
Request(action, code, ts) ==
  [ action |-> action, sessionCode |-> code, timestamp |-> ts,
    mobile |-> FALSE, task |-> "", state |-> EmptyCell, elapsed |-> 0,
    active |-> 0, inactive |-> 0, startTime |-> 0, endTime |-> 0,
    reason |-> "", pausedSeconds |-> 0, apiKey |-> "",
    totalDuration |-> 0, status |-> "" ]

NoRequest == Request("", <<>>, 0)
NoResponse == [success |-> FALSE, error |-> "", state |-> EmptyCell]
Ok == [success |-> TRUE, error |-> "", state |-> EmptyCell]
Failure(msg) == [success |-> FALSE, error |-> msg, state |-> EmptyCell]

\* the value of a one-element set; { f(x) : x \in {e} } evaluates e once and
\* names the result x, which is how the statement sequences below are written
The(S) == CHOOSE x \in S : TRUE

\* normalizeIso_(val) at server time n
normalizeIso_(val, n) == IF val = 0 THEN n ELSE val

\* parseTsMs_(v): 0 stands for null
parseTsMs_(v) == v

\* logSessionEvent(ss, ev)
logSessionEvent(sh, code, eventType, ts, n) ==
  [sh EXCEPT !.events = Append(@, [ ts |-> IF ts # 0 THEN ts ELSE n,
                                    code |-> code, type |-> eventType ])]

\* createSession(ss, data) at server time n
createSession(sh, data, n) ==
  LET createdIso == normalizeIso_(data.timestamp, n)
      lastIso == normalizeIso_(data.timestamp, n)
      row == [ exists |-> TRUE, created |-> createdIso,
               lastActivity |-> lastIso, totalMin |-> 0, activeMin |-> 0,
               idleMin |-> 0, pausedMin |-> 0, done |-> 0,
               total |-> IF data.mobile THEN 6 ELSE 7, status |-> "Active",
               mobile |-> data.mobile, stateJSON |-> EmptyCell ]
  IN  The({ logSessionEvent(sh1, data.sessionCode, "Session Created",
                            lastIso, n) :
            sh1 \in { [sh EXCEPT !.rows[data.sessionCode] = row] } })

\* updateSessionActivity(ss, sessionCode, timestamp)
updateSessionActivity(sh, code, ts) ==
  IF sh.rows[code].exists
    THEN [sh EXCEPT !.rows[code].lastActivity = ts]
    ELSE sh

\* saveSessionState(ss, data) at server time n; data.state arrives as the
\* JSON text sanitizeInput_ made of the posted object
saveSessionState(sh, data, n) ==
  IF data.sessionCode = <<>> \/ ~sh.rows[data.sessionCode].exists THEN sh
  ELSE [sh EXCEPT
          !.rows[data.sessionCode].stateJSON =
             JsonStringify(JsonParse(data.state)),
          !.rows[data.sessionCode].lastActivity =
             IF data.timestamp # 0 THEN data.timestamp ELSE n]

\* getSessionData(ss, sessionCode): the response body
getSessionData(sh, code) ==
  IF code = <<>> THEN Failure("Missing sessionCode")
  ELSE IF sh.rows[code].exists
         THEN [success |-> TRUE, error |-> "",
               state |-> sh.rows[code].stateJSON]
         ELSE Failure("Not found")

\* Task Progress rows of one session
ProgressOf(sh, code) ==
  SelectSeq(sh.progress, LAMBDA r : r.code = code)

RECURSIVE SeqMin(_, _)
SeqMin(seq, acc) ==
  IF seq = <<>> THEN acc
  ELSE SeqMin(Tail(seq),
              IF Head(seq) # 0 /\ (acc = 0 \/ Head(seq) < acc)
                THEN Head(seq) ELSE acc)

RECURSIVE SeqMax(_, _)
SeqMax(seq, acc) ==
  IF seq = <<>> THEN acc
  ELSE SeqMax(Tail(seq),
              IF Head(seq) # 0 /\ (acc = 0 \/ Head(seq) > acc)
                THEN Head(seq) ELSE acc)

RECURSIVE Flatten(_)
Flatten(seqs) == IF seqs = <<>> THEN <<>> ELSE Head(seqs) \o Flatten(Tail(seqs))

\* every timestamp the logs hold for the session: Task Progress row time,
\* start and end, and Session Events time
LogTimes(sh, code) ==
  LET pr == ProgressOf(sh, code)
      ev == SelectSeq(sh.events, LAMBDA r : r.code = code)
  IN  Flatten([i \in 1..Len(pr) |-> <<pr[i].ts, pr[i].startTime, pr[i].endTime>>])
        \o [i \in 1..Len(ev) |-> ev[i].ts]

\* a variant that takes the row's Created Date and Last Activity, when
\* present, as the window and reads the logs only for a missing one
computeSessionWindowRowFirst_(sh, code, n) ==
  LET row == sh.rows[code]
      createdMs == IF row.exists THEN parseTsMs_(row.created) ELSE 0
      lastActMs == IF row.exists THEN parseTsMs_(row.lastActivity) ELSE 0
      min0 == IF createdMs # 0 THEN createdMs
              ELSE SeqMin(LogTimes(sh, code), 0)
      max0 == IF lastActMs # 0 THEN lastActMs
              ELSE SeqMax(LogTimes(sh, code), 0)
      minMs == IF min0 = 0 THEN n ELSE min0
      max1 == IF max0 = 0 THEN minMs ELSE max0
      maxMs == IF max1 < minMs THEN minMs ELSE max1
  IN  [startMs |-> minMs, endMs |-> maxMs]

\* computeSessionWindowMs_(ss, sessionCode) at server time n
computeSessionWindowMs_(sh, code, n) ==
  LET row == sh.rows[code]
      createdMs == IF row.exists THEN parseTsMs_(row.created) ELSE 0
      lastActMs == IF row.exists THEN parseTsMs_(row.lastActivity) ELSE 0
      min0 == SeqMin(LogTimes(sh, code), createdMs)
      max0 == SeqMax(LogTimes(sh, code), lastActMs)
      minMs == IF min0 = 0 THEN n ELSE min0
      max1 == IF max0 = 0 THEN minMs ELSE max0
      maxMs == IF max1 < minMs THEN minMs ELSE max1
  IN  [startMs |-> minMs, endMs |-> maxMs]

RECURSIVE SumPositive(_, _)
\* the sum of the positive values of field f over the rows
SumPositive(rows, f) ==
  IF rows = <<>> THEN 0
  ELSE (IF Head(rows)[f] > 0 THEN Head(rows)[f] ELSE 0)
         + SumPositive(Tail(rows), f)

\* a recomputation that adds to the stored total instead of replacing it
TotalMinutesAccumulated(row, totalSec) == row.totalMin + RoundDiv(totalSec, 60)

\* var totalMin = Math.round(totalSecByWindow / 60)
TotalMinutes(row, totalSec) == RoundDiv(totalSec, 60)

\* updateTotalTime(ss, sessionCode) at server time n
updateTotalTime(sh, code, n) ==
  IF ~sh.rows[code].exists THEN sh
  ELSE
    LET row == sh.rows[code]
        win == computeSessionWindowMs_(sh, code, n)
        totalSecByWindow == Max(0, RoundDiv(win.endMs - win.startMs, 1000))
        activeSec == SumPositive(ProgressOf(sh, code), "active")
        inactiveSec == SumPositive(ProgressOf(sh, code), "inactive")
        pausedSec == row.pausedMin * 60
        idleSec == Max(0, totalSecByWindow - activeSec - pausedSec - inactiveSec)
        row1 == [row EXCEPT !.totalMin = TotalMinutes(row, totalSecByWindow),
                            !.activeMin = RoundDiv(activeSec, 60),
                            !.idleMin = RoundDiv(idleSec, 60),
                            !.pausedMin = RoundDiv(pausedSec, 60)]
        row2 == [row1 EXCEPT
                   !.created = IF parseTsMs_(row1.created) = 0
                                 THEN win.startMs ELSE @,
                   !.lastActivity =
                      IF parseTsMs_(row1.lastActivity) = 0
                           \/ parseTsMs_(row1.lastActivity) < win.endMs
                        THEN win.endMs ELSE @]
    IN  [sh EXCEPT !.rows[code] = row2]

\* getRequiredTasksForSession_(ss, sessionCode)
getRequiredTasksForSession_(sh, code) ==
  LET isMobile == sh.rows[code].exists /\ sh.rows[code].mobile
      base == IF isMobile
                THEN <<"Reading Comprehension Task", "Mental Rotation Task",
                       "ASL Comprehension Test", "Spatial Navigation",
                       "Demographics Survey">>
                ELSE <<"Reading Comprehension Task", "Mental Rotation Task",
                       "ASL Comprehension Test", "Virtual Campus Navigation",
                       "Spatial Navigation", "Demographics Survey">>
      pr == ProgressOf(sh, code)
      aslctOptional ==
        \E i \in 1..Len(pr) :
           /\ pr[i].task = "ASL Comprehension Test"
           /\ pr[i].eventType = "Skipped"
           /\ pr[i].col14 = "does not know asl"
      required == IF aslctOptional
                    THEN SelectSeq(base, LAMBDA t : t # "ASL Comprehension Test")
                    ELSE base
  IN  [i \in 1..Len(required) |-> normalizeTaskName_(required[i])]

\* updateCompletedTasksCount counting the matching rows instead of the
\* distinct tasks
updateCompletedTasksCountRows(sh, code) ==
  LET required == getRequiredTasksForSession_(sh, code)
      requiredSet == {normalizeTaskName_(required[k]) : k \in 1..Len(required)}
      pr == ProgressOf(sh, code)
      completedCount ==
        Cardinality({ j \in 1..Len(pr) :
                        /\ pr[j].eventType \in {"Completed", "Skipped"}
                        /\ normalizeTaskName_(pr[j].task) \in requiredSet })
      requiredTotal == Cardinality(requiredSet)
  IN  IF ~sh.rows[code].exists THEN sh
      ELSE [sh EXCEPT !.rows[code].done = completedCount,
                      !.rows[code].total = requiredTotal,
                      !.rows[code].status =
                         IF completedCount = requiredTotal
                           THEN "Complete" ELSE "Active"]

\* updateCompletedTasksCount(ss, sessionCode)
updateCompletedTasksCount(sh, code) ==
  LET required == getRequiredTasksForSession_(sh, code)
      requiredSet == {normalizeTaskName_(required[k]) : k \in 1..Len(required)}
      pr == ProgressOf(sh, code)
      completedSet ==
        { normalizeTaskName_(pr[i].task) : i \in
            { j \in 1..Len(pr) :
                /\ pr[j].eventType \in {"Completed", "Skipped"}
                /\ normalizeTaskName_(pr[j].task) \in requiredSet } }
      completedCount == Cardinality(completedSet)
      requiredTotal == Cardinality(requiredSet)
  IN  IF ~sh.rows[code].exists THEN sh
      ELSE [sh EXCEPT !.rows[code].done = completedCount,
                      !.rows[code].total = requiredTotal,
                      !.rows[code].status =
                         IF completedCount = requiredTotal
                           THEN "Complete" ELSE "Active"]

\* completeStudy(ss, data) at server time n
completeStudy(sh, data, n) ==
  LET code == data.sessionCode
  IN  IF ~sh.rows[code].exists THEN sh
      ELSE The({ logSessionEvent(sh2, code, "Study Completed",
                                 data.timestamp, n) :
                 sh2 \in { [sh1 EXCEPT
                              !.rows[code].totalMin = data.totalDuration,
                              !.rows[code].status =
                                 IF data.status # "" THEN data.status
                                                     ELSE "Complete"] :
                 sh1 \in { updateCompletedTasksCount(sh, code) } } })

\* a Task Progress row; col13 and col14 are the cells under the headers
\* 'Activity Score (%)' and 'Details'
ProgressRow(data, eventType, startTime, endTime, active, inactive, col13, col14) ==
  [ ts |-> data.timestamp, code |-> data.sessionCode, task |-> data.task,
    eventType |-> eventType, startTime |-> startTime, endTime |-> endTime,
    active |-> active, inactive |-> inactive, col13 |-> col13,
    col14 |-> col14 ]

\* logTaskStart(ss, data)
logTaskStart(sh, data, n) ==
  The({ logSessionEvent(sh2, data.sessionCode, "Task Started",
                        data.timestamp, n) :
        sh2 \in { updateSessionActivity(sh1, data.sessionCode,
                                        data.timestamp) :
        sh1 \in { [sh EXCEPT !.progress = Append(@,
                     ProgressRow(data, "Started",
                                 IF data.startTime # 0 THEN data.startTime
                                                       ELSE data.timestamp,
                                 0, 0, 0, "0", ""))] } } })

\* the low-activity flag of logTaskComplete
Suspicious(data) ==
  data.elapsed # 0 /\ data.active # 0 /\ 10 * data.active < 3 * data.elapsed

\* logTaskComplete(ss, data) at server time n
logTaskComplete(sh, data, n) ==
  The({ IF Suspicious(data)
          THEN logSessionEvent(sh5, data.sessionCode, "Suspicious Activity",
                               data.timestamp, n)
          ELSE sh5 :
        sh5 \in { logSessionEvent(sh4, data.sessionCode, "Task Completed",
                                  data.timestamp, n) :
        sh4 \in { updateTotalTime(sh3, data.sessionCode, n) :
        sh3 \in { updateSessionActivity(sh2, data.sessionCode,
                                        data.timestamp) :
        sh2 \in { updateCompletedTasksCount(sh1, data.sessionCode) :
        sh1 \in { [sh EXCEPT !.progress = Append(@,
                     ProgressRow(data, "Completed", data.startTime,
                                 data.endTime, data.active, data.inactive,
                                 "pct",
                                 IF Suspicious(data) THEN "FLAG: Low activity"
                                                     ELSE ""))] } } } } } })

\* String(x).toLowerCase() of the skip reasons the client sends
LowerCase(reason) ==
  CASE reason = "Does not know ASL" -> "does not know asl"
    [] reason = "User chose to skip" -> "user chose to skip"
    [] reason = "" -> "user choice"
    [] OTHER -> reason

\* logTaskSkipped(ss, data): the appended row has 15 cells, so the reason lands
\* under 'Activity Score (%)' and the value true under 'Details'
logTaskSkipped(sh, data, n) ==
  The({ updateSessionActivity(sh3, data.sessionCode, data.timestamp) :
        sh3 \in { logSessionEvent(sh2, data.sessionCode, "Task Skipped",
                                  data.timestamp, n) :
        sh2 \in { updateCompletedTasksCount(sh1, data.sessionCode) :
        sh1 \in { [sh EXCEPT !.progress = Append(@,
                     ProgressRow(data, "Skipped", 0, 0, 0, 0,
                                 LowerCase(data.reason), "true"))] } } } })

\* logSessionTimer(ss, data)
logSessionTimer(sh, data, n) ==
  The({ updateTotalTime(sh2, data.sessionCode, n) :
        sh2 \in { updateSessionActivity(sh1, data.sessionCode,
                                        data.timestamp) :
        sh1 \in { [sh EXCEPT !.timerRows = @ + 1] } } })

\* resumeSession(ss, data) of the backend, at server time n
resumeSession(sh, data, n) ==
  LET code == data.sessionCode
  IN  The({ updateTotalTime(sh4, code, n) :
            sh4 \in { logSessionEvent(sh3, code, "Session Resumed",
                                      data.timestamp, n) :
            sh3 \in { updateCompletedTasksCount(sh2, code) :
            sh2 \in { IF data.pausedSeconds # 0 /\ sh1.rows[code].exists
                        THEN [sh1 EXCEPT !.rows[code].pausedMin =
                                @ + RoundDiv(data.pausedSeconds, 60)]
                        ELSE sh1 :
            sh1 \in { updateSessionActivity(sh, code,
                                            data.timestamp) } } } } })

\* pauseSession(ss, data) at server time n
pauseSession(sh, data, n) ==
  LET code == data.sessionCode
  IN  The({ logSessionEvent(sh3, code, "Session Paused", data.timestamp, n) :
            sh3 \in { updateCompletedTasksCount(sh2, code) :
            sh2 \in { updateTotalTime(sh1, code, n) :
            sh1 \in { updateSessionActivity(sh, code,
                                            data.timestamp) } } } })

RECURSIVE RepairRows(_, _, _)
\* the loop of repairAllSessionTimes over the Sessions rows
RepairRows(sh, codes, n) ==
  IF codes = {} THEN sh
  ELSE LET code == CHOOSE c \in codes : TRUE
       IN  The({ RepairRows(sh2, codes \ {code}, n) :
                 sh2 \in { updateCompletedTasksCount(sh1, code) :
                 sh1 \in { updateTotalTime(sh, code, n) } } })

\* repairAllSessionTimes() at server time n
repairAllSessionTimes(sh, n) ==
  IF ~sh.ready \/ \A c \in SessionCodes : ~sh.rows[c].exists THEN sh
  ELSE RepairRows(sh, {c \in SessionCodes : sh.rows[c].exists}, n)

\* an action list that lets one more name through
AllowedActionsOpen ==
  { "test_connection", "safe_setup", "upload_video", "log_video_upload",
    "log_video_upload_error", "eeg_scheduled", "session_created",
    "session_resumed", "session_paused", "session_timer", "consent_opened",
    "consent_completed", "consent_verified", "consent_affirmed",
    "video_declined", "task_opened", "task_started", "task_departed",
    "task_returned", "inactivity", "tab_hidden", "tab_visible",
    "window_closed", "help_requested", "task_skipped", "task_completed",
    "skilled_task_completed", "image_recorded",
    "image_recorded_and_uploaded", "image_recorded_no_upload",
    "video_recorded", "calendly_opened", "eeg_interest", "aslct_issue",
    "study_completed", "save_state", "get_session", "heartbeat",
    "external_task_stuck", "mousemove", "mousedown", "keydown", "touchstart",
    "delete_all" }

\* var allowed = new Set([...]) of doPost
AllowedActions ==
  { "test_connection", "safe_setup", "upload_video", "log_video_upload",
    "log_video_upload_error", "eeg_scheduled", "session_created",
    "session_resumed", "session_paused", "session_timer", "consent_opened",
    "consent_completed", "consent_verified", "consent_affirmed",
    "video_declined", "task_opened", "task_started", "task_departed",
    "task_returned", "inactivity", "tab_hidden", "tab_visible",
    "window_closed", "help_requested", "task_skipped", "task_completed",
    "skilled_task_completed", "image_recorded",
    "image_recorded_and_uploaded", "image_recorded_no_upload",
    "video_recorded", "calendly_opened", "eeg_interest", "aslct_issue",
    "study_completed", "save_state", "get_session", "heartbeat",
    "external_task_stuck", "mousemove", "mousedown", "keydown", "touchstart" }

\* the event type logged for the actions that only append a Session Events row
EventTypeOf(action) ==
  CASE action = "heartbeat" -> "Heartbeat"
    [] action = "task_departed" -> "Task Departed"
    [] action = "task_returned" -> "Task Returned"
    [] action = "external_task_stuck" -> "External Task Stuck"
    [] action = "inactivity" -> "Inactivity"
    [] action = "tab_hidden" -> "Tab Hidden"
    [] action = "tab_visible" -> "Tab Visible"
    [] action = "window_closed" -> "Window Closed"
    [] OTHER -> action

EventOnlyActions ==
  { "heartbeat", "task_departed", "task_returned", "external_task_stuck",
    "inactivity", "tab_hidden", "tab_visible", "window_closed" }

\* safeSetupOrMigrate_(): creates the required sheets
safeSetupOrMigrate_(sh) == [sh EXCEPT !.ready = TRUE]

\* ensureEEGColumns_(ss): adds the EEG columns to the Sessions sheet
ensureEEGColumns_(sh) == IF sh.ready THEN [sh EXCEPT !.eegCols = TRUE] ELSE sh

\* the switch of doPost
Dispatch(sh, data, n) ==
  CASE data.action = "session_created" ->
         [sheet |-> createSession(sh, data, n), resp |-> Ok]
    [] data.action = "save_state" ->
         [sheet |-> saveSessionState(sh, data, n), resp |-> Ok]
    [] data.action = "task_started" ->
         [sheet |-> logTaskStart(sh, data, n), resp |-> Ok]
    [] data.action \in {"task_completed", "skilled_task_completed"} ->
         [sheet |-> logTaskComplete(sh, data, n), resp |-> Ok]
    [] data.action = "task_skipped" ->
         [sheet |-> logTaskSkipped(sh, data, n), resp |-> Ok]
    [] data.action = "session_resumed" ->
         [sheet |-> resumeSession(sh, data, n), resp |-> Ok]
    [] data.action = "session_paused" ->
         [sheet |-> pauseSession(sh, data, n), resp |-> Ok]
    [] data.action = "session_timer" ->
         [sheet |-> logSessionTimer(sh, data, n), resp |-> Ok]
    [] data.action = "study_completed" ->
         [sheet |-> completeStudy(sh, data, n), resp |-> Ok]
    [] data.action \in EventOnlyActions ->
         [sheet |-> logSessionEvent(sh, data.sessionCode,
                                    EventTypeOf(data.action),
                                    data.timestamp, n),
          resp |-> Ok]
    [] data.action = "get_session" ->
         [sheet |-> sh, resp |-> getSessionData(sh, data.sessionCode)]
    [] OTHER -> [sheet |-> sh, resp |-> Ok]

\* doPost(e) for a request with a JSON object body, at server time n
doPost(sh, data, n) ==
  IF sh.sharedKey # "" /\ data.apiKey # sh.sharedKey
    THEN [sheet |-> sh, resp |-> Failure("Auth failed")]
  ELSE IF data.action \notin AllowedActions
    THEN [sheet |-> sh, resp |-> Failure("Unknown action")]
  ELSE IF data.action = "test_connection"
    THEN [sheet |-> sh, resp |-> Ok]
  ELSE IF data.action = "safe_setup"
    THEN [sheet |-> safeSetupOrMigrate_(sh), resp |-> Ok]
  ELSE The({ Dispatch(sh2, data, n) :
             sh2 \in { ensureEEGColumns_(sh1) :
             sh1 \in { IF ~sh.ready THEN safeSetupOrMigrate_(sh)
                                    ELSE sh } } })

(***************************************************************************)
(* The client session object and its three stores                          *)
(***************************************************************************)
\* var state = { sessionCode: "", ..., sequence: [], currentTaskIndex: 0, ... }
InitialState ==
  [ sessionCode |-> <<>>, isMobile |-> FALSE, sequence |-> <<>>,
    currentTaskIndex |-> 0, completedTasks |-> <<>>, skippedTasks |-> <<>>,
    totalTimeSpent |-> 0, lastActivity |-> 0 ]

NoCreated == [st |-> InitialState, clean |-> FALSE]

ClientIdle ==
  /\ state = InitialState
  /\ dbOn = FALSE
  /\ sheetsOn = FALSE
  /\ dbDocs = [c \in SessionCodes |-> NoDoc]
  /\ dbPending = <<>>
  /\ localStore = [c \in SessionCodes |-> EmptyCell]
  /\ net = {}
  /\ sessionTimer = CreateTimer
  /\ storageFull = FALSE
  /\ lastSave = NoSave
  /\ lastResume = NoResume
  /\ created = NoCreated
  /\ lastOp = <<"load">>
  /\ ops = 0

Contains(seq, x) == \E i \in 1..Len(seq) : seq[i] = x

\* the body sendToSheets posts for a save_state payload
SaveStateRequest(st) ==
  [Request("save_state", st.sessionCode, 0) EXCEPT
     !.state = JsonStringify(st), !.mobile = st.isMobile]

\* whether saveState() reaches sendToSheets({action: 'save_state', ...})
SaveStateSend(sheetsCfg, lsFail) == sheetsCfg /\ ~lsFail

\* saveState() at time n; dbCfg is window.db, sheetsCfg is CONFIG.SHEETS_URL,
\* lsFail says that localStorage.setItem throws.  The result holds the new
\* session object, the stores and the record of the writes attempted.
SaveState(st, n, dbCfg, sheetsCfg, pending, store, inflight, lsFail) ==
  IF st.sessionCode = <<>>
    THEN [ state |-> st, dbPending |-> pending, localStore |-> store,
           net |-> inflight, save |-> NoSave ]
    ELSE
      LET st1 == [st EXCEPT !.lastActivity = n]
          code == st1.sessionCode
      IN  [ state |-> st1,
            dbPending |-> IF dbCfg THEN Append(pending, st1) ELSE pending,
            localStore |-> IF lsFail THEN store
                           ELSE [store EXCEPT ![code] = JsonStringify(st1)],
            net |-> IF SaveStateSend(sheetsCfg, lsFail)
                      THEN inflight \cup {SaveStateRequest(st1)}
                      ELSE inflight,
            save |-> [ done |-> TRUE, code |-> code, primary |-> dbCfg,
                       local |-> TRUE, localFailed |-> lsFail,
                       legacy |-> SaveStateSend(sheetsCfg, lsFail) ] ]

\* sendToSheets(payload) without the page's own window.sendToSheets
SendToSheets(sheetsCfg, inflight, payload) ==
  IF sheetsCfg THEN inflight \cup {payload} ELSE inflight

\* a variant of the loop that never advances
SkipCompletedNever(idx, sequence, completedTasks) == idx

RECURSIVE SkipCompleted(_, _, _)
\* while (currentTaskIndex < sequence.length &&
\*        completedTasks.includes(sequence[currentTaskIndex])) currentTaskIndex++
SkipCompleted(idx, sequence, completedTasks) ==
  IF idx < Len(sequence) /\ Contains(completedTasks, sequence[idx + 1])
    THEN SkipCompleted(idx + 1, sequence, completedTasks)
    ELSE idx

\* a variant of completeTask's updates that leaves currentTaskIndex alone
CompleteTaskStateStay(st, taskCode, elapsed) ==
  [st EXCEPT
     !.totalTimeSpent = @ + elapsed,
     !.completedTasks = IF Contains(@, taskCode) THEN @
                        ELSE Append(@, taskCode),
     !.skippedTasks = SelectSeq(@, LAMBDA code : code # taskCode)]

\* the session object after the state updates of completeTask(taskCode)
CompleteTaskState(st, taskCode, elapsed) ==
  LET done == IF Contains(st.completedTasks, taskCode)
                THEN st.completedTasks
                ELSE Append(st.completedTasks, taskCode)
  IN  [st EXCEPT
         !.totalTimeSpent = @ + elapsed,
         !.completedTasks = done,
         !.skippedTasks = SelectSeq(@, LAMBDA code : code # taskCode),
         !.currentTaskIndex =
            SkipCompleted(@ + 1, st.sequence, done)]

\* a variant of skipTask's updates that pushes without the includes tests
SkipTaskStatePush(st, taskCode) ==
  LET done == Append(st.completedTasks, taskCode)
  IN  [st EXCEPT
         !.completedTasks = done,
         !.skippedTasks = Append(@, taskCode),
         !.currentTaskIndex =
            SkipCompleted(@ + 1, st.sequence, done)]

\* the session object after the state updates of skipTask(taskCode)
SkipTaskState(st, taskCode) ==
  LET done == IF Contains(st.completedTasks, taskCode)
                THEN st.completedTasks
                ELSE Append(st.completedTasks, taskCode)
  IN  [st EXCEPT
         !.completedTasks = done,
         !.skippedTasks = IF Contains(@, taskCode) THEN @
                          ELSE Append(@, taskCode),
         !.currentTaskIndex =
            SkipCompleted(@ + 1, st.sequence, done)]

\* task.skilled of TASKS
Skilled(taskCode) == taskCode \in {"RC", "MRT", "ASLCT", "VCN", "SN"}

\* the payload of completeTask / logSessionTime built from a timer summary
TimerPayload(action, st, task, t, n) ==
  LET summary == GetSummary(t, n)
  IN  [Request(action, st.sessionCode, n) EXCEPT
         !.task = task, !.mobile = st.isMobile,
         !.elapsed = RoundDiv(summary.elapsed, 1000),
         !.active = RoundDiv(summary.active, 1000),
         !.inactive = RoundDiv(summary.inactive, 1000),
         !.startTime = t.startTime,
         !.endTime = IF t.endTime # 0 THEN t.endTime ELSE n]

\* a lookup that asks the legacy store before the primary one
ResumeLookupLegacyFirst(code, dbCfg, doc, sheetsCfg, resp, readFails) ==
  IF Len(code) # CODE_LEN
    THEN [order |-> <<>>, outcome |-> "invalid", body |-> InitialState]
  ELSE IF sheetsCfg /\ resp.success /\ resp.state # EmptyCell
    THEN [order |-> <<"legacy">>, outcome |-> "legacy",
          body |-> JsonParse(resp.state)]
  ELSE IF dbCfg /\ doc.exists
    THEN [order |-> <<"legacy", "primary">>, outcome |-> "primary",
          body |-> doc.body]
  ELSE [order |-> <<"legacy", "primary">>, outcome |-> "notfound",
        body |-> InitialState]

\* the lookup of resumeSession(code): which stores are read, in which order,
\* and what comes of it.  doc is the primary document, resp the answer the
\* backend would give to get_session, readFails says that the first read made
\* rejects.
ResumeLookup(code, dbCfg, doc, sheetsCfg, resp, readFails) ==
  IF Len(code) # CODE_LEN
    THEN [order |-> <<>>, outcome |-> "invalid", body |-> InitialState]
  ELSE IF dbCfg /\ readFails
    THEN [order |-> <<"primary">>, outcome |-> "error", body |-> InitialState]
  ELSE IF dbCfg /\ doc.exists
    THEN [order |-> <<"primary">>, outcome |-> "primary", body |-> doc.body]
  ELSE
    LET first == IF dbCfg THEN <<"primary">> ELSE <<>>
    IN  IF ~sheetsCfg
          THEN [order |-> first, outcome |-> "notfound", body |-> InitialState]
        ELSE IF readFails
          THEN [order |-> Append(first, "legacy"), outcome |-> "error",
                body |-> InitialState]
        ELSE IF ~resp.success \/ resp.state = EmptyCell
          THEN [order |-> Append(first, "legacy"), outcome |-> "notfound",
                body |-> InitialState]
        ELSE [order |-> Append(first, "legacy"), outcome |-> "legacy",
              body |-> JsonParse(resp.state)]

(***************************************************************************)
(* The timer driven by its callers                                         *)
(***************************************************************************)
NumExecs == 2
Execs == 1..NumExecs

LockIdle ==
  /\ lock = 0
  /\ pc = [e \in Execs |-> 0]
  /\ handler = [e \in Execs |-> NoRequest]

ServerIdle ==
  /\ sheet = EmptySheet(TRUE, "")
  /\ lastReq = NoRequest
  /\ lastResp = NoResponse
  /\ served = 0
  /\ LockIdle

TimerIdle ==
  /\ now = 1
  /\ hidden = FALSE
  /\ timer = CreateTimer
  /\ live = {}
  /\ starts = 0
  /\ steps = 0
  /\ prompts = 0

SeqIdle ==
  /\ rng = <<0, 0>>
  /\ built = <<>>

TimerInit == TimerIdle /\ SeqIdle /\ ClientIdle /\ ServerIdle

\* startTask / resumeSession: timer.start(); the first call is at the initial
\* instant, the origin of the clock being arbitrary
Start(d) ==
  /\ starts < MaxStarts
  /\ steps < MaxSteps
  /\ starts = 0 => d = 0
  /\ now' = now + d
  /\ starts' = starts + 1
  /\ timer' = TimerStart(timer, now', starts')
  /\ live' = live \cup {starts'}
  /\ steps' = steps + 1
  /\ UNCHANGED <<seqVars, clientVars, serverVars>>
  /\ UNCHANGED <<hidden, prompts>>

\* how long the "Are you still there?" dialog of showInactivityPrompt stays
\* open before it is confirmed
PromptDelays == {5000}

\* one firing of a scheduled setInterval callback: tick(), and when tick()
\* pauses the timer, the onInactivity callback showInactivityPrompt, whose
\* confirm() blocks the handler until it is answered
Tick(d) ==
  /\ live # {}
  /\ steps < MaxSteps
  /\ \E t1 \in {TimerTick(timer, now + d, hidden)} :
       IF ~timer.isPaused /\ t1.isPaused
         THEN \* if (this.onInactivity) this.onInactivity()
              /\ prompts' = prompts + 1
              /\ \/ \* confirm() answered with Cancel
                    /\ now' = now + d
                    /\ timer' = t1
                    /\ UNCHANGED sessionTimer
                 \/ \* confirm() answered with OK after w
                    \E w \in PromptDelays :
                      /\ now' = now + d + w
                      /\ timer' = [TimerRecordActivity(
                                      TimerResume(t1, now'), now')
                                      EXCEPT !.lastTick = now + d]
                      /\ sessionTimer' = TimerRecordActivity(
                                           TimerResume(sessionTimer, now'),
                                           now')
         ELSE /\ now' = now + d
              /\ timer' = t1
              /\ UNCHANGED <<prompts, sessionTimer>>
  /\ steps' = steps + 1
  /\ UNCHANGED <<state, dbOn, sheetsOn, dbDocs, dbPending, localStore, net,
                 storageFull, lastSave, lastResume, created, lastOp, ops>>
  /\ UNCHANGED <<seqVars, serverVars>>
  /\ UNCHANGED <<hidden, live, starts>>

\* an input event listener
RecordActivity(d) ==
  /\ timer.startTime # 0
  /\ steps < MaxSteps
  /\ now' = now + d
  /\ timer' = TimerRecordActivity(timer, now')
  /\ steps' = steps + 1
  /\ UNCHANGED <<seqVars, clientVars, serverVars>>
  /\ UNCHANGED <<hidden, live, starts, prompts>>

\* pauseStudy, the blur listener, saveAndExit
Pause(d, reason) ==
  /\ timer.startTime # 0
  /\ steps < MaxSteps
  /\ now' = now + d
  /\ timer' = TimerPause(timer, now', reason)
  /\ steps' = steps + 1
  /\ UNCHANGED <<seqVars, clientVars, serverVars>>
  /\ UNCHANGED <<hidden, live, starts, prompts>>

\* resumeStudy, the focus listener
Resume(d) ==
  /\ timer.startTime # 0
  /\ steps < MaxSteps
  /\ now' = now + d
  /\ timer' = TimerResume(timer, now')
  /\ steps' = steps + 1
  /\ UNCHANGED <<seqVars, clientVars, serverVars>>
  /\ UNCHANGED <<hidden, live, starts, prompts>>

\* the visibilitychange listener
VisibilityChange(d) ==
  /\ timer.startTime # 0
  /\ steps < MaxSteps
  /\ now' = now + d
  /\ hidden' = ~hidden
  /\ timer' = IF hidden' THEN TimerPause(timer, now', "visibility")
                         ELSE TimerResume(timer, now')
  /\ steps' = steps + 1
  /\ UNCHANGED <<seqVars, clientVars, serverVars>>
  /\ UNCHANGED <<live, starts, prompts>>

\* completeTask / skipTask / markComplete: timer.stop()
Stop(d) ==
  /\ timer.startTime # 0
  /\ steps < MaxSteps
  /\ now' = now + d
  /\ timer' = TimerStop(timer, now')
  /\ live' = live \ {timer.intervalId}
  /\ steps' = steps + 1
  /\ UNCHANGED <<seqVars, clientVars, serverVars>>
  /\ UNCHANGED <<hidden, starts, prompts>>

TimerNext ==
  \E d \in Deltas :
    \/ Start(d)
    \/ Tick(d)
    \/ RecordActivity(d)
    \/ \E reason \in CallerReasons : Pause(d, reason)
    \/ Resume(d)
    \/ VisibilityChange(d)
    \/ Stop(d)

SpecTimer == TimerInit /\ [][TimerNext]_vars

(***************************************************************************)
(* Session creation: generateCode, hashCode, shuffleWithSeed,              *)
(* ensureDemographicsLast as createNewSession calls them                   *)
(***************************************************************************)
SeqInit == SeqIdle /\ TimerIdle /\ ClientIdle /\ ServerIdle

\* what createNewSession computes for each code and device class: the seed,
\* the sequence, and the generator's closure variable after the shuffle
CreatedSessions ==
  [code \in Codes, mobile \in BOOLEAN |->
     [ seed |-> SeedOf(code),
       sequence |-> BuildSequence(code, mobile),
       rng |-> RngAfter(mulberry32(SeedOf(code)),
                        Len(DeviceTasks(mobile)) - 1) ]]

\* createNewSession for the code generateCode() returned and the device class
\* isMobileDevice() reported
BuildSession(code, mobile) ==
  /\ Len(built) < MaxBuilds
  /\ \E s \in {CreatedSessions[code, mobile]} :
       /\ rng' = s.rng
       /\ built' = Append(built, [ code |-> code, mobile |-> mobile,
                                   seed |-> s.seed,
                                   sequence |-> s.sequence ])
  /\ UNCHANGED <<timerVars, clientVars, serverVars>>

SeqNext == \E code \in Codes, mobile \in BOOLEAN : BuildSession(code, mobile)

SpecSeq == SeqInit /\ [][SeqNext]_vars

(***************************************************************************)
(* The backend serving requests one at a time, and the menu command that   *)
(* recomputes every session's totals                                       *)
(***************************************************************************)
MaxServed == 3
ServerDeltas == {0, 200000}
ServerCode == CHOOSE c \in SessionCodes : c[2] = 66
ApiKeys == {"", "k"}
UnknownActions == {"delete_all"}

\* request bodies a client of the deployment posts at time ts
ServerRequests(ts) ==
  LET base(a) == Request(a, ServerCode, ts)
  IN  { [base("session_created") EXCEPT !.mobile = m] : m \in BOOLEAN }
      \cup { [base("save_state") EXCEPT !.state = JsonStringify(InitialState)] }
      \cup { [base("task_completed") EXCEPT
                !.task = "Reading Comprehension Task", !.elapsed = 120,
                !.active = 90, !.inactive = 30,
                !.startTime = ts, !.endTime = ts] }
      \cup { [base("task_skipped") EXCEPT
                !.task = "ASL Comprehension Test",
                !.reason = "Does not know ASL"] }
      \cup { [base("session_resumed") EXCEPT !.pausedSeconds = 90] }
      \cup { [base("study_completed") EXCEPT !.status = "Complete",
                                             !.totalDuration = 45] }
      \cup { base(a) : a \in {"session_paused", "session_timer", "heartbeat",
                              "get_session", "test_connection", "safe_setup"}
                             \cup UnknownActions }

ServerInit ==
  /\ TimerIdle /\ SeqIdle /\ ClientIdle
  /\ \E ready \in BOOLEAN, key \in ApiKeys : sheet = EmptySheet(ready, key)
  /\ lastReq = NoRequest
  /\ lastResp = NoResponse
  /\ served = 0
  /\ LockIdle

\* one web request served by doPost
ServeRequest(d, key) ==
  /\ served < MaxServed
  /\ key \in {"", sheet.sharedKey}
  /\ now' = now + d
  /\ \E r \in ServerRequests(now') :
       \E out \in {doPost(sheet, [r EXCEPT !.apiKey = key], now')} :
         /\ sheet' = out.sheet
         /\ lastResp' = out.resp
         /\ lastReq' = [r EXCEPT !.apiKey = key]
  /\ served' = served + 1
  /\ UNCHANGED <<hidden, timer, live, starts, steps, prompts>>
  /\ UNCHANGED <<seqVars, clientVars, lockVars>>

\* the menu command 'repair all session times'
RepairAllSessionTimes(d) ==
  /\ served < MaxServed
  /\ now' = now + d
  /\ sheet' = repairAllSessionTimes(sheet, now')
  /\ lastReq' = Request("repairAllSessionTimes", <<>>, 0)
  /\ lastResp' = Ok
  /\ served' = served + 1
  /\ UNCHANGED <<hidden, timer, live, starts, steps, prompts>>
  /\ UNCHANGED <<seqVars, clientVars, lockVars>>

ServerNext ==
  \E d \in ServerDeltas :
    \/ \E key \in ApiKeys : ServeRequest(d, key)
    \/ RepairAllSessionTimes(d)

SpecServer == ServerInit /\ [][ServerNext]_vars

(***************************************************************************)
(* updateCompletedTasksCount on the sheets a session's task requests leave  *)
(***************************************************************************)
\* the task names the client posts, and the short name normalizeTaskName_
\* maps to the first of them
PostedTasks ==
  << "Reading Comprehension Task", "Mental Rotation Task",
     "ASL Comprehension Test", "Virtual Campus Navigation",
     "Spatial Navigation", "Demographics Survey", "Image Description", "RC" >>

\* the Task Progress row logTaskStart / logTaskComplete / logTaskSkipped
\* appends for task i
PostedRow(i, eventType) ==
  LET data == [Request("", ServerCode, 1) EXCEPT !.task = PostedTasks[i],
                 !.reason = IF PostedTasks[i] = "ASL Comprehension Test"
                              THEN "Does not know ASL"
                              ELSE "User chose to skip"]
  IN  CASE eventType = "Started" ->
             ProgressRow(data, "Started", 1, 0, 0, 0, "0", "")
        [] eventType = "Skipped" ->
             ProgressRow(data, "Skipped", 0, 0, 0, 0,
                         LowerCase(data.reason), "true")
        [] OTHER ->
             ProgressRow(data, "Completed", 1, 1, 90, 30, "pct", "")

\* the last event logged for each posted task ("" when none was)
LastEvents ==
  { f \in [1..Len(PostedTasks) -> {"", "Started", "Completed", "Skipped"}] :
      /\ f[7] \in {"", "Completed"}
      /\ f[8] \in {"", "Completed"} }

\* a sheet holding the session row createSession wrote and those rows
CountSheet(mobile, f) ==
  LET all == [i \in 1..Len(PostedTasks) |-> [i |-> i, ev |-> f[i]]]
      kept == SelectSeq(all, LAMBDA x : x.ev # "")
      sh0 == createSession(EmptySheet(TRUE, ""),
                           [Request("session_created", ServerCode, 1)
                              EXCEPT !.mobile = mobile], 1)
  IN  [sh0 EXCEPT !.progress =
         [j \in 1..Len(kept) |-> PostedRow(kept[j].i, kept[j].ev)]]

CountInit ==
  /\ TimerIdle /\ SeqIdle /\ ClientIdle /\ LockIdle
  /\ \E mobile \in BOOLEAN, f \in LastEvents : sheet = CountSheet(mobile, f)
  /\ lastReq = NoRequest
  /\ lastResp = NoResponse
  /\ served = 0

\* one run of updateCompletedTasksCount for the session
Recount ==
  /\ served = 0
  /\ sheet' = updateCompletedTasksCount(sheet, ServerCode)
  /\ lastReq' = Request("updateCompletedTasksCount", ServerCode, 0)
  /\ served' = 1
  /\ UNCHANGED <<lastResp, lockVars>>
  /\ UNCHANGED <<timerVars, seqVars, clientVars>>

SpecCount == CountInit /\ [][Recount]_vars

(***************************************************************************)
(* The study page: one client, its stores, and the backend answering the   *)
(* requests it posts.  timer is the page's taskTimer.                      *)
(***************************************************************************)
MaxClientOps == 3
ClientDeltas == {1000}
InvalidCode == <<65>>

ClientInit ==
  /\ TimerIdle /\ SeqIdle
  /\ ServerIdle
  /\ state = InitialState
  /\ dbOn \in BOOLEAN
  /\ sheetsOn \in BOOLEAN
  /\ dbDocs = [c \in SessionCodes |-> NoDoc]
  /\ dbPending = <<>>
  /\ localStore = [c \in SessionCodes |-> EmptyCell]
  /\ net = {}
  /\ sessionTimer = CreateTimer
  /\ storageFull \in BOOLEAN
  /\ lastSave = NoSave
  /\ lastResume = NoResume
  /\ created = NoCreated
  /\ lastOp = <<"load">>
  /\ ops = 0

\* the participant acts once the page's earlier writes have been answered
Quiet == net = {} /\ dbPending = <<>>

\* state.sequence of createNewSession for each code and device class
SessionSequences ==
  [c \in SessionCodes, m \in BOOLEAN |-> BuildSequence(c, m)]

\* createNewSession() with the code generateCode() drew
CreateNewSession(d, code, mobile) ==
  /\ ops < MaxClientOps
  /\ Quiet
  /\ state.sessionCode = <<>>
  /\ now' = now + d
  /\ \E st0 \in {[state EXCEPT !.sessionCode = code, !.isMobile = mobile,
                                  !.sequence = SessionSequences[code, mobile],
                                  !.lastActivity = now']} :
     \E sv \in {SaveState(st0, now', dbOn, sheetsOn, dbPending, localStore,
                          net, storageFull)} :
         /\ state' = sv.state
         /\ dbPending' = sv.dbPending
         /\ localStore' = sv.localStore
         /\ net' = SendToSheets(sheetsOn, sv.net,
                     [Request("session_created", code, now') EXCEPT
                        !.mobile = mobile])
         /\ lastSave' = sv.save
         /\ created' = [st |-> sv.state, clean |-> ~storageFull]
  /\ lastOp' = <<"createNewSession", code>>
  /\ ops' = ops + 1
  /\ UNCHANGED <<dbOn, sheetsOn, dbDocs, sessionTimer, storageFull, lastResume>>
  /\ UNCHANGED <<hidden, timer, live, starts, steps, prompts>>
  /\ UNCHANGED <<seqVars, serverVars>>

\* startTask(taskCode) for the task the progress screen offers
StartTask(d, taskCode) ==
  /\ ops < MaxClientOps
  /\ Quiet
  /\ state.sessionCode # <<>>
  /\ state.currentTaskIndex < Len(state.sequence)
  /\ taskCode = state.sequence[state.currentTaskIndex + 1]
  /\ now' = now + d
  /\ starts' = starts + 1
  /\ timer' = TimerStart(timer, now', starts')
  /\ live' = live \cup {starts'}
  /\ net' = SendToSheets(sheetsOn, net,
              [Request("task_started", state.sessionCode, now') EXCEPT
                 !.task = getStandardTaskName(taskCode),
                 !.mobile = state.isMobile, !.startTime = now'])
  /\ lastOp' = <<"startTask", taskCode>>
  /\ ops' = ops + 1
  /\ UNCHANGED <<state, dbOn, sheetsOn, dbDocs, dbPending, localStore,
                 sessionTimer, storageFull, lastSave, lastResume, created>>
  /\ UNCHANGED <<hidden, steps, prompts>>
  /\ UNCHANGED <<seqVars, serverVars>>

\* the tasks a completion or a skip can name: the one on offer, and the one
\* the last operation named (a repeated message or click)
NameableTasks ==
  (IF state.currentTaskIndex < Len(state.sequence)
     THEN {state.sequence[state.currentTaskIndex + 1]} ELSE {})
  \cup (IF lastOp[1] \in {"completeTask", "skipTask"} THEN {lastOp[2]} ELSE {})

\* the body of completeTask(taskCode) for a known task, d ms after the last event
completeTask(d, taskCode) ==
  /\ now' = now + d
  /\ timer' = TimerStop(timer, now')
  /\ live' = live \ {timer.intervalId}
  /\ \E summary \in {GetSummary(timer', now')} :
     \E st1 \in {CompleteTaskState(state, taskCode, summary.elapsed)} :
     \E sv \in {SaveState(st1, now', dbOn, sheetsOn, dbPending, localStore,
                          net, storageFull)} :
     \E action \in {IF Skilled(taskCode) THEN "skilled_task_completed"
                                         ELSE "task_completed"} :
     \E net1 \in {SendToSheets(sheetsOn, sv.net,
                     TimerPayload(action, sv.state,
                                  getStandardTaskName(taskCode), timer',
                                  now'))} :
         /\ state' = sv.state
         /\ dbPending' = sv.dbPending
         /\ localStore' = sv.localStore
         /\ net' = SendToSheets(sheetsOn, net1,
                     TimerPayload("session_timer", sv.state, "",
                                  sessionTimer, now'))
         /\ lastSave' = sv.save
  /\ created' = [created EXCEPT !.clean = FALSE]
  /\ lastOp' = <<"completeTask", taskCode>>
  /\ ops' = ops + 1
  /\ UNCHANGED <<dbOn, sheetsOn, dbDocs, sessionTimer, storageFull, lastResume>>
  /\ UNCHANGED <<hidden, starts, steps, prompts>>
  /\ UNCHANGED <<seqVars, serverVars>>

\* completeTask(taskCode) on the session's page
CompleteTask(d, taskCode) ==
  /\ ops < MaxClientOps
  /\ Quiet
  /\ state.sessionCode # <<>>
  /\ taskCode \in NameableTasks
  /\ completeTask(d, taskCode)

\* the body of skipTask(taskCode) for a known task, d ms after the last event
skipTask(d, taskCode) ==
  /\ now' = now + d
  /\ timer' = TimerStop(timer, now')
  /\ live' = live \ {timer.intervalId}
  /\ \E st1 \in {SkipTaskState(state, taskCode)} :
     \E sv \in {SaveState(st1, now', dbOn, sheetsOn, dbPending, localStore,
                          net, storageFull)} :
     \E net1 \in {SendToSheets(sheetsOn, sv.net,
                     [Request("task_skipped", sv.state.sessionCode, now')
                        EXCEPT
                        !.task = getStandardTaskName(taskCode),
                        !.mobile = sv.state.isMobile,
                        !.reason = IF taskCode = "ASLCT"
                                     THEN "Does not know ASL"
                                     ELSE "User chose to skip"])} :
         /\ state' = sv.state
         /\ dbPending' = sv.dbPending
         /\ localStore' = sv.localStore
         /\ net' = SendToSheets(sheetsOn, net1,
                     TimerPayload("session_timer", sv.state, "",
                                  sessionTimer, now'))
         /\ lastSave' = sv.save
  /\ created' = [created EXCEPT !.clean = FALSE]
  /\ lastOp' = <<"skipTask", taskCode>>
  /\ ops' = ops + 1
  /\ UNCHANGED <<dbOn, sheetsOn, dbDocs, sessionTimer, storageFull, lastResume>>
  /\ UNCHANGED <<hidden, starts, steps, prompts>>
  /\ UNCHANGED <<seqVars, serverVars>>

\* skipTask(taskCode) on the session's page
SkipTask(d, taskCode) ==
  /\ ops < MaxClientOps
  /\ Quiet
  /\ state.sessionCode # <<>>
  /\ taskCode \in NameableTasks
  /\ skipTask(d, taskCode)

\* the page is loaded again: every script variable starts over
Reload ==
  /\ ops < MaxClientOps
  /\ Quiet
  /\ lastOp # <<"load">>
  /\ state' = InitialState
  /\ timer' = CreateTimer
  /\ sessionTimer' = CreateTimer
  /\ live' = {}
  /\ starts' = 0
  /\ hidden' = FALSE
  /\ lastOp' = <<"load">>
  /\ ops' = ops + 1
  /\ UNCHANGED <<now, steps, prompts>>
  /\ UNCHANGED <<dbOn, sheetsOn, dbDocs, dbPending, localStore, net, lastSave,
                 storageFull, lastResume, created>>
  /\ UNCHANGED <<seqVars, serverVars>>

\* resumeSession(code) from the welcome screen; the reads it awaits are taken
\* in one step with the backend's answer to get_session
ResumeSession(d, code, readFails) ==
  /\ ops < MaxClientOps
  /\ Quiet
  /\ state.sessionCode = <<>>
  /\ now' = now + d
  /\ \E known \in {code \in SessionCodes} :
     \E req \in {Request("get_session", code, 0)} :
     \E out \in {IF known THEN doPost(sheet, req, now')
                           ELSE [sheet |-> sheet, resp |-> NoResponse]} :
     \E doc \in {IF known THEN dbDocs[code] ELSE NoDoc} :
     \E look \in {ResumeLookup(code, dbOn, doc, sheetsOn, out.resp,
                               readFails)} :
     \E fetched \in {Contains(look.order, "legacy")
                      /\ look.outcome # "error"} :
     \E found \in {look.outcome \in {"primary", "legacy"}} :
     \E st1 \in {IF found
                    THEN [look.body EXCEPT
                            !.sequence = ensureDemographicsLast(@)]
                    ELSE state} :
     \E sv \in {SaveState(st1, now', dbOn, sheetsOn, dbPending, localStore,
                          net, storageFull)} :
         /\ IF fetched
              THEN /\ sheet' = out.sheet
                   /\ lastReq' = req
                   /\ lastResp' = out.resp
                   /\ served' = served + 1
              ELSE UNCHANGED <<sheet, lastReq, lastResp, served>>
         /\ IF found
              THEN /\ state' = sv.state
                   /\ dbPending' = sv.dbPending
                   /\ localStore' = sv.localStore
                   /\ net' = sv.net
                   /\ lastSave' = sv.save
                   /\ created' = [created EXCEPT !.clean = FALSE]
                   /\ IF sessionTimer.startTime = 0
                        THEN /\ starts' = starts + 1
                             /\ sessionTimer' =
                                  TimerStart(sessionTimer, now', starts')
                             /\ live' = live \cup {starts'}
                        ELSE UNCHANGED <<starts, sessionTimer, live>>
              ELSE UNCHANGED <<state, dbPending, localStore, net, lastSave,
                               created, starts, sessionTimer, live>>
         /\ lastResume' =
              [ done |-> TRUE, code |-> code, order |-> look.order,
                outcome |-> look.outcome, failed |-> readFails,
                primaryHad |-> dbOn /\ doc.exists,
                legacyHad |-> /\ sheetsOn /\ known
                              /\ sheet.rows[code].exists
                              /\ sheet.rows[code].stateJSON # EmptyCell,
                fresh |-> created.clean /\ created.st.sessionCode = code,
                saved |-> created.st,
                stored |-> IF found THEN look.body ELSE InitialState,
                before |-> state, after |-> state' ]
  /\ lastOp' = <<"resumeSession", code>>
  /\ ops' = ops + 1
  /\ UNCHANGED <<dbOn, sheetsOn, dbDocs, storageFull>>
  /\ UNCHANGED <<hidden, timer, steps, prompts>>
  /\ UNCHANGED <<seqVars, lockVars>>

\* the primary store settles the oldest pending write: it commits, or it
\* rejects and the .catch of saveState logs the error
DbWriteSettle(ok) ==
  /\ dbPending # <<>>
  /\ dbDocs' = IF ok
                 THEN [dbDocs EXCEPT ![Head(dbPending).sessionCode] =
                         [exists |-> TRUE, body |-> Head(dbPending)]]
                 ELSE dbDocs
  /\ dbPending' = Tail(dbPending)
  /\ created' = IF ok THEN created ELSE [created EXCEPT !.clean = FALSE]
  /\ UNCHANGED <<state, dbOn, sheetsOn, localStore, net, sessionTimer,
                 storageFull, lastSave, lastResume, lastOp, ops>>
  /\ UNCHANGED <<timerVars, seqVars, serverVars>>

\* the backend handles one of the posted requests
Deliver(r) ==
  /\ r \in net
  /\ \E out \in {doPost(sheet, r, now)} :
       /\ sheet' = out.sheet
       /\ lastResp' = out.resp
  /\ lastReq' = r
  /\ served' = served + 1
  /\ net' = net \ {r}
  /\ UNCHANGED lockVars
  /\ UNCHANGED <<state, dbOn, sheetsOn, dbDocs, dbPending, localStore,
                 sessionTimer, storageFull, lastSave, lastResume, created,
                 lastOp, ops>>
  /\ UNCHANGED <<timerVars, seqVars>>

ClientNext ==
  \/ \E d \in ClientDeltas, code \in SessionCodes, mobile \in BOOLEAN :
        CreateNewSession(d, code, mobile)
  \/ \E d \in ClientDeltas, taskCode \in TaskCodes : StartTask(d, taskCode)
  \/ \E d \in ClientDeltas, taskCode \in TaskCodes : CompleteTask(d, taskCode)
  \/ \E d \in ClientDeltas, taskCode \in TaskCodes : SkipTask(d, taskCode)
  \/ Reload
  \/ \E d \in ClientDeltas, code \in SessionCodes \cup {InvalidCode},
        readFails \in BOOLEAN : ResumeSession(d, code, readFails)
  \/ \E ok \in BOOLEAN : DbWriteSettle(ok)
  \/ \E r \in net : Deliver(r)

SpecClient == ClientInit /\ [][ClientNext]_vars

(***************************************************************************)
(* The backend serving requests in concurrent executions.  Each execution  *)
(* runs the instructions of its handler one at a time; LockService's       *)
(* document lock is as documented: waitLock has no effect for the          *)
(* execution that already holds the lock, and releaseLock gives the lock   *)
(* up whatever the number of waitLock calls before it.                     *)
(***************************************************************************)
MaxLockRuns == 2

\* the instructions doPost runs for a request: ensureEEGColumns_ and then the
\* handler, each withDocLock_ being a "wait" and a "release"
Script(action) ==
  <<"wait", "ensureEEGColumns", "release">> \o
  CASE action \in {"task_completed", "skilled_task_completed"} ->
         <<"wait", "appendProgress",
           "wait", "updateCompletedTasksCount", "release",
           "updateSessionActivity",
           "wait", "updateTotalTime", "release",
           "logSessionEvent", "release">>
    [] action = "task_skipped" ->
         <<"wait", "appendProgress",
           "wait", "updateCompletedTasksCount", "release",
           "logSessionEvent", "updateSessionActivity", "release">>
    [] action = "task_started" ->
         <<"wait", "appendProgress", "updateSessionActivity",
           "logSessionEvent", "release">>
    [] OTHER ->
         <<"wait", "createSession", "release">>

\* the index of the handler's own first instruction
HandlerStart == 4

\* requests that arrive close together
LockRequests ==
  { Request("session_created", ServerCode, 1),
    [Request("task_started", ServerCode, 1) EXCEPT
       !.task = "Reading Comprehension Task", !.startTime = 1],
    [Request("task_completed", ServerCode, 1) EXCEPT
       !.task = "Reading Comprehension Task", !.elapsed = 120,
       !.active = 90, !.inactive = 30, !.startTime = 1, !.endTime = 1],
    [Request("task_skipped", ServerCode, 1) EXCEPT
       !.task = "ASL Comprehension Test", !.reason = "Does not know ASL"] }

Instr(e) == Script(handler[e].action)[pc[e]]

\* pc after the instruction at pc[e]
Advance(e) ==
  [pc EXCEPT ![e] = IF pc[e] = Len(Script(handler[e].action)) THEN 0
                    ELSE pc[e] + 1]

\* the write one instruction of a handler makes
Effect(sh, instr, data, n) ==
  CASE instr = "ensureEEGColumns" -> ensureEEGColumns_(sh)
    [] instr = "createSession" -> createSession(sh, data, n)
    [] instr = "appendProgress" ->
         [sh EXCEPT !.progress = Append(@,
            CASE data.action = "task_started" ->
                   ProgressRow(data, "Started", data.startTime, 0, 0, 0,
                               "0", "")
              [] data.action = "task_skipped" ->
                   ProgressRow(data, "Skipped", 0, 0, 0, 0,
                               LowerCase(data.reason), "true")
              [] OTHER ->
                   ProgressRow(data, "Completed", data.startTime,
                               data.endTime, data.active, data.inactive,
                               "pct", ""))]
    [] instr = "updateCompletedTasksCount" ->
         updateCompletedTasksCount(sh, data.sessionCode)
    [] instr = "updateSessionActivity" ->
         updateSessionActivity(sh, data.sessionCode, data.timestamp)
    [] instr = "updateTotalTime" -> updateTotalTime(sh, data.sessionCode, n)
    [] instr = "logSessionEvent" ->
         logSessionEvent(sh, data.sessionCode,
                         CASE data.action = "task_started" -> "Task Started"
                           [] data.action = "task_skipped" -> "Task Skipped"
                           [] OTHER -> "Task Completed",
                         data.timestamp, n)

LockInit ==
  /\ TimerIdle /\ SeqIdle /\ ClientIdle /\ ServerIdle

\* a request arrives and an execution starts doPost for it
Begin(e, r) ==
  /\ pc[e] = 0
  /\ served < MaxLockRuns
  /\ handler' = [handler EXCEPT ![e] = r]
  /\ pc' = [pc EXCEPT ![e] = 1]
  /\ served' = served + 1
  /\ UNCHANGED <<sheet, lastReq, lastResp, lock>>
  /\ UNCHANGED <<timerVars, seqVars, clientVars>>

\* lock.waitLock(30000) returns
WaitLock(e) ==
  /\ pc[e] # 0
  /\ Instr(e) = "wait"
  /\ lock \in {0, e}
  /\ lock' = e
  /\ pc' = Advance(e)
  /\ UNCHANGED <<sheet, lastReq, lastResp, served, handler>>
  /\ UNCHANGED <<timerVars, seqVars, clientVars>>

\* the timeout exception caught and dropped inside withDocLock_: fn() runs
\* without the lock
WaitLockSwallowed(e) ==
  /\ pc[e] # 0
  /\ Instr(e) = "wait"
  /\ lock \notin {0, e}
  /\ pc' = Advance(e)
  /\ UNCHANGED <<sheet, lastReq, lastResp, served, lock, handler>>
  /\ UNCHANGED <<timerVars, seqVars, clientVars>>

\* lock.waitLock(30000) throws after its timeout: the exception leaves every
\* enclosing withDocLock_ and doPost answers with the error
WaitLockTimeout(e) ==
  /\ pc[e] # 0
  /\ Instr(e) = "wait"
  /\ lock \notin {0, e}
  /\ pc' = [pc EXCEPT ![e] = 0]
  /\ lastReq' = handler[e]
  /\ lastResp' = Failure("Lock timeout")
  /\ UNCHANGED <<sheet, served, lock, handler>>
  /\ UNCHANGED <<timerVars, seqVars, clientVars>>

\* lock.releaseLock() in the finally of withDocLock_
ReleaseLock(e) ==
  /\ pc[e] # 0
  /\ Instr(e) = "release"
  /\ lock' = IF lock = e THEN 0 ELSE lock
  /\ pc' = Advance(e)
  /\ IF pc'[e] = 0
       THEN lastReq' = handler[e] /\ lastResp' = Ok
       ELSE UNCHANGED <<lastReq, lastResp>>
  /\ UNCHANGED <<sheet, served, handler>>
  /\ UNCHANGED <<timerVars, seqVars, clientVars>>

\* one sheet read-and-write of the handler
SheetStep(e) ==
  /\ pc[e] # 0
  /\ Instr(e) \notin {"wait", "release"}
  /\ sheet' = Effect(sheet, Instr(e), handler[e], now)
  /\ pc' = Advance(e)
  /\ UNCHANGED <<lastReq, lastResp, served, lock, handler>>
  /\ UNCHANGED <<timerVars, seqVars, clientVars>>

LockNext ==
  \E e \in Execs :
    \/ \E r \in LockRequests : Begin(e, r)
    \/ WaitLock(e)
    \/ WaitLockTimeout(e)
    \/ ReleaseLock(e)
    \/ SheetStep(e)

SpecLock == LockInit /\ [][LockNext]_vars

\* the script engine keeps executing the instructions of the executions that
\* have started, and waitLock(30000) returns or throws within its timeout:
\* some started execution moves on to its next instruction or ends
RunExecution(e) ==
  /\ pc[e] # 0
  /\ pc' \in {Advance(e), [pc EXCEPT ![e] = 0]}

SpecLockFair == SpecLock /\ WF_pc(\E e \in Execs : RunExecution(e))

(***************************************************************************)
(* C1                                                                      *)
(***************************************************************************)
SummarySum(s) == s.active + s.paused + s.inactive

\* C1: for a timer started once, after any sequence of tick, recordActivity,
\* pause, resume and stop calls the values returned by getSummary() satisfy
\* active + paused + inactive <= elapsed.
C1_SummaryWithinElapsed ==
  (starts = 1) =>
     SummarySum(GetSummary(timer, now)) <= GetSummary(timer, now).elapsed

Count(seq, x) == Cardinality({k \in 1..Len(seq) : seq[k] = x})

IsPermutationOf(seq, list) ==
  /\ Len(seq) = Len(list)
  /\ \A x \in TaskCodes : Count(seq, x) = Count(list, x)

\* C3: every sequence built by createNewSession holds DEMO exactly once, as
\* its last element, and the elements before it are a permutation of the
\* device's task list.
C3_DemoLastPermutation ==
  \A i \in 1..Len(built) :
     LET sq == built[i].sequence
     IN  /\ Len(sq) >= 1
         /\ sq[Len(sq)] = "DEMO"
         /\ Count(sq, "DEMO") = 1
         /\ IsPermutationOf(SubSeq(sq, 1, Len(sq) - 1),
                            DeviceTasks(built[i].mobile))

\* a desktop and a mobile session were created, both really shuffled
C3_Witness ==
  /\ Len(built) = 2
  /\ ~built[1].mobile /\ built[2].mobile
  /\ SubSeq(built[1].sequence, 1, 6) # DESKTOP_TASKS
  /\ SubSeq(built[2].sequence, 1, 5) # MOBILE_TASKS

(***************************************************************************)
(* C4                                                                      *)
(***************************************************************************)
SessionOf(st) ==
  <<st.completedTasks, st.skippedTasks, st.currentTaskIndex, st.totalTimeSpent>>

\* C4: calling completeTask(x) twice in a row leaves the session state
\* (completedTasks, skippedTasks, currentTaskIndex, totalTimeSpent) identical
\* to the state after calling it once
C4_CompleteTaskIdempotent ==
  [][ (ops' = ops + 1 /\ lastOp[1] = "completeTask" /\ lastOp' = lastOp)
        => SessionOf(state') = SessionOf(state) ]_vars

(***************************************************************************)
(* C5                                                                      *)
(***************************************************************************)
\* C5: after createNewSession has performed its initial save for code c (every
\* write it issued was answered, none failed, and a store other than the local
\* cache is configured), resumeSession(c) whose reads succeed returns a state
\* whose sequence, completedTasks and skippedTasks equal those of the saved
\* state
C5_ResumeRoundTrip ==
  ( /\ lastResume.done
    /\ lastResume.fresh
    /\ ~lastResume.failed
    /\ (dbOn \/ sheetsOn) )
  => /\ lastResume.outcome \in {"primary", "legacy"}
     /\ lastResume.after.sequence = lastResume.saved.sequence
     /\ lastResume.after.completedTasks = lastResume.saved.completedTasks
     /\ lastResume.after.skippedTasks = lastResume.saved.skippedTasks

(***************************************************************************)
(* C6                                                                      *)
(***************************************************************************)
\* the execution is between its handler's first waitLock and the handler's
\* last releaseLock
InHandlerBody(e) ==
  pc[e] > HandlerStart /\ pc[e] <= Len(Script(handler[e].action))

\* C6: every state-mutating request handler holds the document lock
\* continuously from before its first sheet read to after its last sheet
\* write, also when it calls helpers that go through withDocLock_ themselves,
\* so no two requests are inside their handlers at the same time
C6_HandlersHoldLock ==
  /\ \A e \in Execs : InHandlerBody(e) => lock = e
  /\ \A e1, e2 \in Execs :
       (InHandlerBody(e1) /\ InHandlerBody(e2)) => e1 = e2

(***************************************************************************)
(* C7                                                                      *)
(***************************************************************************)
\* C7: saveState attempts the write to every configured backend (primary
\* document store, local cache, legacy sheet store), whether or not the write
\* to another backend fails
C7_SaveStateWritesAllBackends ==
  lastSave.done
  => /\ dbOn => lastSave.primary
     /\ lastSave.local
     /\ sheetsOn => lastSave.legacy

(***************************************************************************)
(* C8                                                                      *)
(***************************************************************************)
\* C8: resumeSession(code) consults the primary store first and uses its
\* document whenever it exists; the legacy store is queried only when the
\* primary has no document and the legacy store is configured; when neither
\* holds the session (and no read fails) the outcome is 'Session not found'
\* and the in-memory session state is left unchanged
C8_ResumeLookupOrder ==
  (lastResume.done /\ lastResume.outcome # "invalid")
  => /\ dbOn => /\ Len(lastResume.order) >= 1
                /\ lastResume.order[1] = "primary"
     /\ (lastResume.primaryHad /\ ~lastResume.failed)
          => /\ lastResume.outcome = "primary"
             /\ lastResume.order = <<"primary">>
             /\ SessionOf(lastResume.after) = SessionOf(lastResume.stored)
             /\ lastResume.after.sequence =
                  ensureDemographicsLast(lastResume.stored.sequence)
     /\ Contains(lastResume.order, "legacy")
          => sheetsOn /\ ~lastResume.primaryHad
     /\ (~lastResume.failed /\ ~lastResume.primaryHad /\ ~lastResume.legacyHad)
          => /\ lastResume.outcome = "notfound"
             /\ lastResume.after = lastResume.before

\* a lookup that found the primary document and never asked the legacy store
\* although it is configured, and the lookup was made after tasks were done
C8_Witness ==
  /\ lastResume.done
  /\ lastResume.outcome = "primary"
  /\ sheetsOn
  /\ lastResume.order = <<"primary">>
  /\ lastResume.after.sessionCode = lastResume.code
  /\ lastResume.before.sessionCode = <<>>

\* a lookup that missed the primary store, asked the legacy store, and found
\* the session in neither
C8_WitnessNotFound ==
  /\ lastResume.done
  /\ dbOn /\ sheetsOn
  /\ lastResume.order = <<"primary", "legacy">>
  /\ lastResume.outcome = "notfound"
  /\ lastResume.after = InitialState

(***************************************************************************)
(* C9                                                                      *)
(***************************************************************************)
Totals(sh, code) ==
  LET row == sh.rows[code]
  IN  <<row.totalMin, row.activeMin, row.idleMin, row.pausedMin,
        row.created, row.lastActivity>>

\* C9: calling updateTotalTime(sessionCode) twice with no Task Progress or
\* Session Events rows appended in between writes the same Total, Active,
\* Idle and Paused minutes and the same Created Date / Last Activity both
\* times
C9_UpdateTotalTimeIdempotent ==
  \A c \in SessionCodes, d \in ServerDeltas :
    LET once == updateTotalTime(sheet, c, now)
        twice == updateTotalTime(once, c, now + d)
    IN  /\ Totals(twice, c) = Totals(once, c)
        /\ twice.progress = sheet.progress
        /\ twice.events = sheet.events

\* a handler ending in updateTotalTime has just recomputed the totals of a
\* session with non-zero total, active and paused minutes
C9_Witness ==
  /\ lastReq.action \in {"session_resumed", "repairAllSessionTimes"}
  /\ lastResp = Ok
  /\ \E c \in SessionCodes :
       /\ sheet.rows[c].exists
       /\ sheet.rows[c].totalMin > 0
       /\ sheet.rows[c].activeMin > 0
       /\ sheet.rows[c].pausedMin > 0
       /\ Len(ProgressOf(sheet, c)) > 0

(***************************************************************************)
(* C10                                                                     *)
(***************************************************************************)
\* C10 as stated: a doPost request whose action is not in the whitelist
\* returns {success:false, error:'Unknown action'} and performs no sheet
\* mutation before returning
C10_UnknownActionRejected ==
  [][ (served' # served /\ lastReq'.action \in UnknownActions)
        => /\ lastResp' = Failure("Unknown action")
           /\ sheet' = sheet ]_vars

\* C10 amended: a doPost request whose action is not in the whitelist performs
\* no sheet mutation and returns {success:false}, with the error 'Unknown
\* action' when the request passes the shared-key check and 'Auth failed' when
\* a shared key is configured and the request does not carry it
C10_UnknownActionRejectedAfterAuth ==
  [][ (served' # served /\ lastReq'.action \in UnknownActions)
        => /\ sheet' = sheet
           /\ lastResp' =
                IF sheet.sharedKey # "" /\ lastReq'.apiKey # sheet.sharedKey
                  THEN Failure("Auth failed")
                  ELSE Failure("Unknown action") ]_vars

\* an unknown action was answered while the required sheets did not exist yet
C10_Witness ==
  /\ lastReq.action \in UnknownActions
  /\ lastResp = Failure("Unknown action")
  /\ ~sheet.ready
  /\ ~sheet.eegCols

(***************************************************************************)
(* C11                                                                     *)
(***************************************************************************)
\* C11: a request that cannot acquire the document lock within the waitLock
\* bound terminates with a failure response {success:false, error}: an
\* execution leaves a waitLock either holding the lock or ended with that
\* response, and from some point on no execution is blocked at a waitLock
C11_LockTimeoutFails ==
  /\ [][ \A e \in Execs :
           (pc[e] # 0 /\ Instr(e) = "wait" /\ pc'[e] # pc[e] /\ lock' # e)
             => /\ pc'[e] = 0
                /\ lastReq' = handler[e]
                /\ lastResp'.success = FALSE
                /\ lastResp'.error # "" ]_vars
  /\ <>[](\A e \in Execs :
            ~(pc[e] # 0 /\ Instr(e) = "wait" /\ lock \notin {0, e}))

\* a request failed on the lock after another execution had taken it, and
\* its own writes before the timeout stay in the sheet
C11_Witness ==
  /\ lastResp = Failure("Lock timeout")
  /\ lock # 0
  /\ \E e \in Execs : pc[e] = 0 /\ handler[e] = lastReq /\ lock # e
  /\ sheet.eegCols

(***************************************************************************)
(* C12                                                                     *)
(***************************************************************************)
\* the fields of a timer that getSummary() reports from
Frozen(t) ==
  <<t.endTime, t.activeTime, t.pausedTime, t.inactivityTime, t.pauseCount>>

\* C12: a stopped timer is frozen: once stop() has run (and until the next
\* start()), no tick, recordActivity, pause, resume or second stop changes
\* endTime, activeTime, pausedTime, inactivityTime or pauseCount
C12_StoppedTimerFrozen ==
  [][ (timer.endTime > timer.startTime /\ starts' = starts)
        => Frozen(timer') = Frozen(timer) ]_vars

(***************************************************************************)
(* C13                                                                     *)
(***************************************************************************)
\* started, and not stopped since the last start()
Running(t) == t.startTime # 0 /\ ~(t.endTime > t.startTime)

\* C13: on a running timer, pause(reason) records the instant of the call;
\* while the timer stays paused for 'manual' neither activeTime nor
\* inactivityTime nor pausedTime changes, and the resume() that ends the
\* pause d after it began adds exactly d to pausedTime; a pause with any
\* other reason adds nothing to pausedTime, during it or on resume
C13_ManualPauseCounted ==
  [][ (Running(timer) /\ starts' = starts /\ timer'.endTime = timer.endTime)
        => /\ (~timer.isPaused /\ timer'.isPaused)
                => timer'.pauseStart = now'
           /\ (timer.isPaused /\ timer.pauseReason = "manual")
                => /\ timer'.activeTime = timer.activeTime
                   /\ timer'.inactivityTime = timer.inactivityTime
                   /\ timer'.pauseStart = timer.pauseStart
                   /\ timer'.pausedTime =
                        IF timer'.isPaused THEN timer.pausedTime
                        ELSE timer.pausedTime + (now' - timer.pauseStart)
           /\ (timer.isPaused /\ timer.pauseReason # "manual")
                => timer'.pausedTime = timer.pausedTime ]_vars

\* a manual pause of 5 s has been resumed on a timer that ran actively for
\* 5 s before it
C13_Witness ==
  /\ Running(timer)
  /\ ~timer.isPaused
  /\ timer.pauseCount = 1
  /\ timer.pausedTime = 5000
  /\ timer.activeTime = 1
  /\ timer.inactivityTime = 0
  /\ now - timer.startTime = 5001

(***************************************************************************)
(* C14                                                                     *)
(***************************************************************************)
\* C14: a tick taken at instant n while the timer is not paused and the
\* document is visible pauses the timer with reason 'inactivity' and calls
\* onInactivity exactly when more than 120 s have passed at n since
\* lastActivity (after which the prompt's confirmation may resume it); no
\* other tick and no other call gives a timer the reason 'inactivity'
C14_InactivityPauseAtThreshold ==
  [][ /\ \A d \in Deltas :
           Tick(d) =>
             IF /\ ~hidden /\ ~timer.isPaused
                /\ (now + d) - timer.lastActivity > INACTIVITY_MS
               THEN /\ timer'.pauseCount = timer.pauseCount + 1
                    /\ prompts' = prompts + 1
                    /\ \/ /\ timer'.isPaused
                          /\ timer'.pauseReason = "inactivity"
                          /\ timer'.pauseStart = now + d
                       \/ /\ ~timer'.isPaused
                          /\ now' > now + d
                          /\ timer'.lastActivity = now'
               ELSE /\ timer'.pauseCount = timer.pauseCount
                    /\ prompts' = prompts
                    /\ timer'.isPaused = timer.isPaused
                    /\ timer'.pauseReason = timer.pauseReason
      /\ (/\ timer'.isPaused /\ timer'.pauseReason = "inactivity"
          /\ ~(timer.isPaused /\ timer.pauseReason = "inactivity"))
           => \E d \in Deltas : Tick(d) ]_vars

\* the timer ticked while active, then a tick found it silent for more than
\* 120 s, paused it for inactivity and prompted
C14_Witness ==
  /\ timer.isPaused
  /\ timer.pauseReason = "inactivity"
  /\ prompts = 1
  /\ timer.pauseCount = 1
  /\ timer.activeTime = 1
  /\ timer.pauseStart - timer.lastActivity > INACTIVITY_MS
  /\ timer.endTime = 0

(***************************************************************************)
(* C15                                                                     *)
(***************************************************************************)
\* C15: a tick taken while the timer is running with between 5 s and 120 s
\* since the last activity adds to neither activeTime nor inactivityTime,
\* and inactivityTime grows only on ticks taken while the timer is paused
\* with reason 'inactivity'
C15_InactivityAfterTimeoutOnly ==
  [][ (starts' = starts /\ ~(timer.isPaused /\ timer.pauseReason = "inactivity"))
        => /\ timer'.inactivityTime = timer.inactivityTime
           /\ \A d \in Deltas :
                (/\ Tick(d) /\ ~hidden /\ ~timer.isPaused
                 /\ (now + d) - timer.lastActivity >= RECENT_MS
                 /\ (now + d) - timer.lastActivity <= INACTIVITY_MS)
                  => timer'.activeTime = timer.activeTime ]_vars

(***************************************************************************)
(* C16                                                                     *)
(***************************************************************************)
\* the required-task set of a session
RequiredSet(sh, c) ==
  LET required == getRequiredTasksForSession_(sh, c)
  IN  {required[i] : i \in 1..Len(required)}

\* the required tasks with a Completed or Skipped row for the session, a row
\* naming a task by its own name or by a short name of it
DoneSet(sh, c) ==
  { t \in RequiredSet(sh, c) :
      \E i \in 1..Len(sh.progress) :
         /\ sh.progress[i].code = c
         /\ sh.progress[i].eventType \in {"Completed", "Skipped"}
         /\ normalizeTaskName_(sh.progress[i].task) = t }

\* C16: after updateCompletedTasksCount(sessionCode), the session row's
\* Tasks Completed is k/n, n the size of the required-task set and k the
\* number of distinct required tasks with a Completed or Skipped row in Task
\* Progress for the session, and Status is 'Complete' exactly when k = n and
\* 'Active' otherwise
C16_CompletedCountIsIntersection ==
  served = 1 =>
    LET row == sheet.rows[ServerCode]
        k == Cardinality(DoneSet(sheet, ServerCode))
        n == Cardinality(RequiredSet(sheet, ServerCode))
    IN  /\ row.done = k
        /\ row.total = n
        /\ row.status = IF k = n THEN "Complete" ELSE "Active"

\* the count was taken of a desktop session with every required task
\* completed or skipped, one of them logged twice, and one task only started
\* that is not required
C16_Witness ==
  /\ served = 1
  /\ lastReq.action = "updateCompletedTasksCount"
  /\ sheet.rows[ServerCode].status = "Complete"
  /\ sheet.rows[ServerCode].done = 6
  /\ Len(sheet.progress) = 8
  /\ \E i \in 1..Len(sheet.progress) : sheet.progress[i].eventType = "Skipped"

(***************************************************************************)
(* C17                                                                     *)
(***************************************************************************)
\* C17: in every state of a session row reachable through doPost, Status is
\* 'Complete' only if the recomputed completed count equals the required
\* count, and after a study_completed request Total Time (min) is the value
\* updateTotalTime derives from the event-log window, not the totalDuration
\* the client declared
C17_ServerRecomputationIsAuthority ==
  \A c \in SessionCodes :
     sheet.rows[c].exists =>
       /\ sheet.rows[c].status = "Complete"
            => Cardinality(DoneSet(sheet, c))
                 = Cardinality(RequiredSet(sheet, c))
       /\ (lastReq.action = "study_completed" /\ lastReq.sessionCode = c)
            => sheet.rows[c].totalMin
                 = updateTotalTime(sheet, c, now).rows[c].totalMin

(***************************************************************************)
(* Resuming a session whose stored sequence is arbitrary.  The stored      *)
(* session may come from an earlier build or a hand-edited store, so its   *)
(* sequence is any list of codes up to MaxStored long; an absent sequence  *)
(* and an empty one are both <<>>, as ensureDemographicsLast reads         *)
(* (sequence || []).                                                       *)
(***************************************************************************)
MaxStored == 3
StoredCodes == {"RC", "MRT", "DEMO"}
MsPerDay == 86400000
RecentDays == 30

RECURSIVE SeqsUpTo(_, _)
\* the sequences over S of length at most n
SeqsUpTo(S, n) ==
  IF n = 0 THEN {<<>>}
  ELSE LET shorter == SeqsUpTo(S, n - 1)
       IN  shorter \cup {Append(q, x) : q \in shorter, x \in S}

StoredSequences == SeqsUpTo(StoredCodes, MaxStored)

\* the session object found in a store, with sequence sq
StoredState(sq) ==
  [InitialState EXCEPT !.sessionCode = ServerCode, !.sequence = sq,
                       !.lastActivity = 1]

ResumeInit ==
  /\ TimerIdle /\ SeqIdle
  /\ LockIdle
  /\ \E sq \in StoredSequences, where \in SUBSET {"primary", "legacy", "local"} :
       /\ dbDocs = [c \in SessionCodes |->
                      IF c = ServerCode /\ "primary" \in where
                        THEN [exists |-> TRUE, body |-> StoredState(sq)]
                        ELSE NoDoc]
       /\ sheet = IF "legacy" \in where
                    THEN [EmptySheet(TRUE, "") EXCEPT
                            !.rows[ServerCode] =
                               [NoRow EXCEPT
                                  !.exists = TRUE,
                                  !.stateJSON = JsonStringify(StoredState(sq))]]
                    ELSE EmptySheet(TRUE, "")
       /\ localStore = [c \in SessionCodes |->
                          IF c = ServerCode /\ "local" \in where
                            THEN JsonStringify(StoredState(sq))
                            ELSE EmptyCell]
  /\ lastReq = NoRequest
  /\ lastResp = NoResponse
  /\ served = 0
  /\ state = InitialState
  /\ dbOn \in BOOLEAN
  /\ sheetsOn \in BOOLEAN
  /\ dbPending = <<>>
  /\ net = {}
  /\ sessionTimer = CreateTimer
  /\ storageFull = FALSE
  /\ lastSave = NoSave
  /\ lastResume = NoResume
  /\ created = NoCreated
  /\ lastOp = <<"load">>
  /\ ops = 0

\* checkSavedSession() and its confirm dialog d ms after the page loaded;
\* recentCode is the content of recent_session, accept the answer to confirm()
CheckSavedSession(d, recentCode, accept) ==
  /\ ops < MaxClientOps
  /\ Quiet
  /\ state.sessionCode = <<>>
  /\ localStore[recentCode] # EmptyCell
  /\ now' = now + d
  /\ \E data \in {JsonParse(localStore[recentCode])} :
     \E fresh \in {(now' - data.lastActivity) \div MsPerDay < RecentDays} :
     \E st1 \in {[data EXCEPT !.sequence = ensureDemographicsLast(@)]} :
     \E sv \in {SaveState(st1, now', dbOn, sheetsOn, dbPending, localStore,
                          net, storageFull)} :
       IF fresh /\ accept
         THEN /\ state' = sv.state
              /\ dbPending' = sv.dbPending
              /\ localStore' = sv.localStore
              /\ net' = sv.net
              /\ lastSave' = sv.save
              /\ created' = [created EXCEPT !.clean = FALSE]
              /\ lastResume' =
                   [ done |-> TRUE, code |-> recentCode, order |-> <<"local">>,
                     outcome |-> "local", failed |-> FALSE,
                     primaryHad |-> FALSE, legacyHad |-> FALSE,
                     fresh |-> FALSE, saved |-> created.st,
                     stored |-> data, before |-> state, after |-> state' ]
         ELSE UNCHANGED <<state, dbPending, localStore, net, lastSave,
                          created, lastResume>>
  /\ lastOp' = <<"checkSavedSession", recentCode>>
  /\ ops' = ops + 1
  /\ UNCHANGED <<dbOn, sheetsOn, dbDocs, sessionTimer, storageFull>>
  /\ UNCHANGED <<hidden, timer, live, starts, steps, prompts>>
  /\ UNCHANGED <<seqVars, serverVars>>

ResumeNext ==
  \/ \E d \in ClientDeltas, code \in SessionCodes, readFails \in BOOLEAN :
        ResumeSession(d, code, readFails)
  \/ \E d \in ClientDeltas, recentCode \in SessionCodes, accept \in BOOLEAN :
        CheckSavedSession(d, recentCode, accept)

SpecResume == ResumeInit /\ [][ResumeNext]_vars

\* C18: after a successful resume from the primary store, the legacy store
\* or the local cache, whatever sequence was stored, state.sequence ends
\* with DEMO, holds DEMO nowhere else, and its other elements are the
\* stored non-DEMO codes in their stored order.
C18_ResumeNormalisesSequence ==
  (lastResume.done /\ lastResume.outcome \in {"primary", "legacy", "local"}) =>
    \E s \in {lastResume.after.sequence}, o \in {lastResume.stored.sequence} :
      /\ state.sequence = s
      /\ Len(s) >= 1
      /\ s[Len(s)] = "DEMO"
      /\ \A i \in 1..(Len(s) - 1) : s[i] # "DEMO"
      /\ SubSeq(s, 1, Len(s) - 1) = SelectSeq(o, LAMBDA c : c # "DEMO")

\* a resume from the local cache of a sequence that holds DEMO twice, neither
\* time at the end
C18_Witness ==
  /\ lastResume.done
  /\ lastResume.outcome = "local"
  /\ lastResume.stored.sequence = <<"DEMO", "DEMO", "RC">>
  /\ state.sequence = <<"RC", "DEMO">>

(***************************************************************************)
\* C19: updateTotalTime writes Total = latest - earliest of the session
\* window, Active = the sum of the Task Progress active fields, Paused = the
\* row's Paused Time, and Idle = total - active - paused floored at zero,
\* with nothing else subtracted (seconds, written as rounded minutes)
C19_IdleIsTotalLessActiveLessPaused ==
  \A c \in SessionCodes :
    sheet.rows[c].exists =>
      \E win \in {computeSessionWindowMs_(sheet, c, now)} :
      \E totalSec \in {Max(0, RoundDiv(win.endMs - win.startMs, 1000))} :
      \E activeSec \in {SumPositive(ProgressOf(sheet, c), "active")} :
      \E pausedSec \in {sheet.rows[c].pausedMin * 60} :
      \E after \in {updateTotalTime(sheet, c, now).rows[c]} :
        /\ after.totalMin = RoundDiv(totalSec, 60)
        /\ after.activeMin = RoundDiv(activeSec, 60)
        /\ after.pausedMin = RoundDiv(pausedSec, 60)
        /\ after.idleMin
             = RoundDiv(Max(0, totalSec - activeSec - pausedSec), 60)

(***************************************************************************)
\* C20: once createNewSession has created the session, the session timer and
\* the task timer have both been started: startTime is set, the interval
\* callback is scheduled and the accumulators are zero
C20_CreateStartsBothTimers ==
  lastOp[1] = "createNewSession" =>
    \A t \in {sessionTimer, timer} :
      /\ t.startTime # 0
      /\ t.intervalId \in live
      /\ t.activeTime = 0 /\ t.inactivityTime = 0 /\ t.pausedTime = 0

(***************************************************************************)
\* C21: once a task_skipped event for the ASL Comprehension Test with the
\* reason 'Does not know ASL' is in a session's Task Progress log, the
\* required-task set of the session does not contain the ASL Comprehension
\* Test
C21_ExemptionHonoured ==
  \A c \in SessionCodes :
    (\E i \in 1..Len(sheet.progress) :
        /\ sheet.progress[i].code = c
        /\ sheet.progress[i].task = "ASL Comprehension Test"
        /\ sheet.progress[i].eventType = "Skipped"
        /\ sheet.progress[i].col13 = LowerCase("Does not know ASL"))
      => \A k \in DOMAIN getRequiredTasksForSession_(sheet, c) :
            getRequiredTasksForSession_(sheet, c)[k]
              # normalizeTaskName_("ASL Comprehension Test")

(***************************************************************************)
(* The requests of one session delivered to the backend in any order, with *)
(* retries.  The client posts each request once (createNewSession,         *)
(* saveState, completeTask, skipTask); the network decides the order in    *)
(* which doPost sees them and a retry delivers the last request again.     *)
(***************************************************************************)
MaxDeliveries == 7
CompletionActions == {"task_completed", "skilled_task_completed", "task_skipped"}

\* what the client posts for a session in which RC and the demographics
\* survey are completed and the ASL test is skipped, in the order of posting
SessionPosts(mobile) ==
  << [Request("session_created", ServerCode, 1000) EXCEPT !.mobile = mobile],
     [Request("save_state", ServerCode, 0) EXCEPT
        !.state = JsonStringify([InitialState EXCEPT
                                   !.sessionCode = ServerCode]),
        !.mobile = mobile],
     [Request("skilled_task_completed", ServerCode, 200000) EXCEPT
        !.task = getStandardTaskName("RC"), !.elapsed = 120, !.active = 90,
        !.inactive = 30, !.startTime = 80000, !.endTime = 200000,
        !.mobile = mobile],
     [Request("task_skipped", ServerCode, 210000) EXCEPT
        !.task = getStandardTaskName("ASLCT"),
        !.reason = "Does not know ASL", !.mobile = mobile],
     [Request("task_completed", ServerCode, 400000) EXCEPT
        !.task = getStandardTaskName("DEMO"), !.elapsed = 100, !.active = 100,
        !.startTime = 300000, !.endTime = 400000, !.mobile = mobile] >>

RECURSIVE InOrder(_, _, _)
\* the spreadsheet after doPost has handled posts one after the other
InOrder(sh, posts, n) ==
  IF posts = <<>> THEN sh
  ELSE InOrder(doPost(sh, Head(posts), n).sheet, Tail(posts), n)

\* the session rows after in-order delivery, per device class
InOrderRows ==
  [mobile \in BOOLEAN |->
     InOrder(EmptySheet(TRUE, ""), SessionPosts(mobile), 1).rows]

DeliverInit ==
  /\ TimerIdle /\ SeqIdle /\ LockIdle
  /\ now = 1
  /\ sheet = EmptySheet(TRUE, "")
  /\ lastReq = NoRequest
  /\ lastResp = NoResponse
  /\ served = 0
  /\ state = InitialState
  /\ dbOn = FALSE
  /\ sheetsOn = TRUE
  /\ dbDocs = [c \in SessionCodes |-> NoDoc]
  /\ dbPending = <<>>
  /\ localStore = [c \in SessionCodes |-> EmptyCell]
  /\ \E mobile \in BOOLEAN :
       net = {SessionPosts(mobile)[i] : i \in 1..Len(SessionPosts(mobile))}
  /\ sessionTimer = CreateTimer
  /\ storageFull = FALSE
  /\ lastSave = NoSave
  /\ lastResume = NoResume
  /\ created = NoCreated
  /\ lastOp = <<"load">>
  /\ ops = 0

\* a retry: the request handled last reaches doPost once more
Redeliver ==
  /\ lastReq # NoRequest
  /\ served < MaxDeliveries
  /\ \E out \in {doPost(sheet, lastReq, now)} :
       /\ sheet' = out.sheet
       /\ lastResp' = out.resp
  /\ served' = served + 1
  /\ UNCHANGED <<lastReq, lockVars>>
  /\ UNCHANGED <<timerVars, seqVars, clientVars>>

DeliverNext ==
  \/ \E r \in net : Deliver(r)
  \/ Redeliver

SpecDeliver == DeliverInit /\ [][DeliverNext]_vars

C23_OrderOfDeliveryHarmless ==
  (net = {} /\ served = Len(SessionPosts(FALSE))) =>
    \A mobile \in BOOLEAN :
      sheet.rows[ServerCode].mobile = mobile =>
        /\ sheet.rows[ServerCode].done = InOrderRows[mobile][ServerCode].done
        /\ sheet.rows[ServerCode].total = InOrderRows[mobile][ServerCode].total
        /\ sheet.rows[ServerCode].status
             = InOrderRows[mobile][ServerCode].status

(***************************************************************************)
(* sendToSheets(payload) with the page's logger.  logger says what         *)
(* window.sendToSheets is: absent, a function whose promise resolves or    *)
(* rejects, or a function that throws when called.  Payloads are the       *)
(* objects the callers build.                                              *)
(***************************************************************************)
LoggerKinds == {"absent", "resolves", "rejects", "throws"}

\* a variant whose first try block has no catch for the logger's failure
sendToSheetsUncaught(payload, logger, sheetsCfg, fetchFails, inflight) ==
  IF logger \in {"rejects", "throws"}
    THEN [settled |-> "rejected", net |-> inflight, warned |-> FALSE]
  ELSE IF logger = "resolves" \/ ~sheetsCfg \/ fetchFails
    THEN [settled |-> "fulfilled", net |-> inflight, warned |-> FALSE]
  ELSE [settled |-> "fulfilled", net |-> inflight \cup {payload},
        warned |-> FALSE]

\* the promise of sendToSheets(payload): how it settles, the requests in
\* flight afterwards and whether console.warn / console.error was called
sendToSheets(payload, logger, sheetsCfg, fetchFails, inflight) ==
  IF logger = "resolves"
    THEN [settled |-> "fulfilled", net |-> inflight, warned |-> FALSE]
  ELSE
    \* the catch of the first try has run when the logger failed
    IF ~sheetsCfg
      THEN [settled |-> "fulfilled", net |-> inflight,
            warned |-> logger \in {"rejects", "throws"}]
    ELSE IF fetchFails
      THEN [settled |-> "fulfilled", net |-> inflight, warned |-> TRUE]
    ELSE [settled |-> "fulfilled", net |-> inflight \cup {payload},
          warned |-> logger \in {"rejects", "throws"}]

SinkActions == {"heartbeat", "task_started", "session_timer", "task_departed"}

SinkInit ==
  /\ TimerIdle /\ SeqIdle /\ ServerIdle
  /\ state = InitialState
  /\ dbOn = FALSE
  /\ sheetsOn \in BOOLEAN
  /\ dbDocs = [c \in SessionCodes |-> NoDoc]
  /\ dbPending = <<>>
  /\ localStore = [c \in SessionCodes |-> EmptyCell]
  /\ net = {}
  /\ sessionTimer = CreateTimer
  /\ storageFull = FALSE
  /\ lastSave = NoSave
  /\ lastResume = NoResume
  /\ created = NoCreated
  /\ lastOp = <<"load">>
  /\ ops = 0

\* a caller emits an event without awaiting it
Emit(d, action, logger, fetchFails) ==
  /\ ops < MaxClientOps
  /\ now' = now + d
  /\ \E out \in {sendToSheets(Request(action, ServerCode, now'), logger,
                              sheetsOn, fetchFails, net)} :
       /\ net' = out.net
       /\ lastOp' = <<"sendToSheets", out.settled, logger, fetchFails,
                      out.warned>>
  /\ ops' = ops + 1
  /\ UNCHANGED <<state, dbOn, sheetsOn, dbDocs, dbPending, localStore,
                 sessionTimer, storageFull, lastSave, lastResume, created>>
  /\ UNCHANGED <<hidden, timer, live, starts, steps, prompts>>
  /\ UNCHANGED <<seqVars, serverVars>>

SinkNext ==
  \E d \in ClientDeltas, action \in SinkActions, logger \in LoggerKinds,
     fetchFails \in BOOLEAN : Emit(d, action, logger, fetchFails)

SpecSink == SinkInit /\ [][SinkNext]_vars

MaxHashLen == 8
\* '0', 'A' and 'Z' as char codes
HashChars == {48, 65, 90}

HashStrings == SeqsUpTo(HashChars, MaxHashLen)

HashInit ==
  /\ TimerIdle /\ ClientIdle /\ ServerIdle
  /\ rng = <<0, 0>>
  /\ \E str \in HashStrings :
       built = <<[str |-> str, hashed |-> FALSE, hash |-> <<0, 0>>]>>

\* hashCode(str) is called on the string
HashString ==
  /\ ~built[1].hashed
  /\ built' = <<[built[1] EXCEPT !.hashed = TRUE,
                               !.hash = hashCode(built[1].str)]>>
  /\ UNCHANGED <<rng, timerVars, clientVars, serverVars>>

SpecHash == HashInit /\ [][HashString]_vars

RECURSIVE RollingHash(_, _)
\* hash = hash * 31 + charCode over the first n characters of str, reduced
\* modulo 2^32 after every step (a word is the two's-complement pattern of
\* the signed value)
RollingHash(str, n) ==
  IF n = 0 THEN <<0, 0>>
  ELSE LET h == RollingHash(str, n - 1)
           lo == h[2] * 31 + str[n]
       IN  <<(h[1] * 31 + lo \div W16) % W16, lo % W16>>

\* C25: hashCode(str) is the rolling hash hash * 31 + charCode with 32-bit
\* wraparound after every step, for every string over the code alphabet up
\* to 8 characters, and 0 for the empty string
C25_HashIsRollingHash ==
  built[1].hashed =>
    /\ built[1].hash = RollingHash(built[1].str, Len(built[1].str))
    /\ built[1].str = <<>> => built[1].hash = <<0, 0>>

\* an 8-character string whose hash has wrapped to a negative value
C25_Witness ==
  /\ built[1].hashed
  /\ Len(built[1].str) = CODE_LEN
  /\ IsNegW(built[1].hash)

(***************************************************************************)
\* C26: pause(reason) on a timer that is not paused sets isPaused, records
\* the reason and the pause start time and adds one to pauseCount; on a
\* timer that is already paused it changes nothing
C26_PauseIdempotent ==
  [][ \A d \in Deltas, reason \in CallerReasons :
        Pause(d, reason) =>
          IF timer.isPaused
            THEN timer' = timer
            ELSE /\ timer'.isPaused
                 /\ timer'.pauseReason = reason
                 /\ timer'.pauseStart = now'
                 /\ timer'.pauseCount = timer.pauseCount + 1
                 /\ [timer' EXCEPT !.isPaused = timer.isPaused,
                                   !.pauseReason = timer.pauseReason,
                                   !.pauseStart = timer.pauseStart,
                                   !.pauseCount = timer.pauseCount] = timer
    ]_vars

\* a manually paused timer on which pause() was called again 5 s or more
\* later: no tick, input or resume has happened since the pause began, and
\* the pause still has its reason, its start time and its count
C26_Witness ==
  /\ timer.isPaused
  /\ timer.pauseReason = "manual"
  /\ timer.pauseCount = 1
  /\ timer.endTime = 0
  /\ ~hidden
  /\ now - timer.pauseStart >= RECENT_MS
  /\ timer.lastTick <= timer.pauseStart
  /\ timer.lastActivity <= timer.pauseStart

(***************************************************************************)
\* C27: recordActivity() always sets lastActivity to the current time; it
\* makes the timer running again exactly when the timer was paused with
\* reason 'inactivity', and a timer paused for another reason stays paused
\* with its reason
C27_RecordActivityResumesInactivityOnly ==
  [][ \A d \in Deltas :
        RecordActivity(d) =>
          /\ timer'.lastActivity = now'
          /\ timer'.isPaused
               = (timer.isPaused /\ timer.pauseReason # "inactivity")
          /\ timer'.isPaused =>
               /\ timer'.pauseReason = timer.pauseReason
               /\ timer'.pauseStart = timer.pauseStart
               /\ timer'.pauseCount = timer.pauseCount
    ]_vars

\* input arrived while the timer was manually paused: lastActivity is later
\* than the start of the pause and the timer is still paused
C27_Witness ==
  /\ timer.isPaused
  /\ timer.pauseReason = "manual"
  /\ timer.endTime = 0
  /\ timer.lastActivity > timer.pauseStart
  /\ timer.lastActivity = now

(***************************************************************************)
\* C28: after stop() no periodic tick callback of the timer remains
\* scheduled, also when start() was called more than once before the stop
C28_NoTickSourceAfterStop ==
  [][ \A d \in Deltas : Stop(d) => live' = {} ]_vars

(***************************************************************************)
\* C29: a tick adds to activeTime at most the time during which input was
\* recent.  Stated for the tick that follows start() and one further call,
\* where the history is known: input was recent for at most RECENT_MS after
\* the start and from the recorded activity on, so a recordActivity just
\* before the first tick after a long gap does not make the gap active time
C29_GapNotCreditedAsActive ==
  [][ \A d \in Deltas :
        (Tick(d) /\ starts = 1 /\ steps = 2) =>
          timer'.activeTime - timer.activeTime
            <= RECENT_MS + (now' - timer.lastActivity) ]_vars

(***************************************************************************)
(* Leaving and returning to the page during a task: the window's blur and  *)
(* focus listeners, startHeartbeat / stopHeartbeat and the heartbeat       *)
(* callback.  The session object carries the fields these handlers use;    *)
(* heartbeatInterval is 0 (null) or the id of the scheduled interval.      *)
(* The window's blur and focus events alternate, 1 s apart, and a          *)
(* heartbeat comes HEARTBEAT_MS after the event before it.  The away       *)
(* seconds of an event are carried in the request's elapsed field.         *)
(***************************************************************************)
STUCK_MS == 600000
HEARTBEAT_MS == 30000
MaxAwayMs == 660000
MaxAwayOps == 4
AwayDeltas == {1000}
TaskTypes == {"external", "embed"}

AwayState(type) ==
  [ currentTaskType |-> type, externalDepart |-> 0, heartbeatInterval |-> 0,
    heartbeatMisses |-> 0, externalNotified |-> FALSE ]
    @@ [InitialState EXCEPT !.sessionCode = ServerCode, !.sequence = <<"MRT">>]

CurrentTaskName == getStandardTaskName(state.sequence[state.currentTaskIndex + 1])

StuckEvents == {e \in net : e.action = "external_task_stuck"}

AwayInit ==
  /\ TimerIdle /\ SeqIdle /\ ServerIdle
  /\ \E type \in TaskTypes : state = AwayState(type)
  /\ dbOn = FALSE
  /\ sheetsOn = TRUE
  /\ dbDocs = [c \in SessionCodes |-> NoDoc]
  /\ dbPending = <<>>
  /\ localStore = [c \in SessionCodes |-> EmptyCell]
  /\ net = {}
  /\ sessionTimer = CreateTimer
  /\ storageFull = FALSE
  /\ lastSave = NoSave
  /\ lastResume = NoResume
  /\ created = NoCreated
  /\ lastOp = <<"load">>
  /\ ops = 0

\* startHeartbeat(taskName) on the session object st with the interval id
startHeartbeat(st, id) ==
  IF st.heartbeatInterval # 0 THEN st
  ELSE [st EXCEPT !.heartbeatMisses = 0, !.heartbeatInterval = id]

\* stopHeartbeat() on the session object st
stopHeartbeat(st) ==
  IF st.heartbeatInterval # 0
    THEN [st EXCEPT !.heartbeatInterval = 0, !.heartbeatMisses = 0,
                    !.externalNotified = FALSE]
    ELSE st

\* a variant of the interval callback without the externalNotified test
HeartbeatStuckRepeated(st, n) ==
  /\ st.externalDepart # 0
  /\ n - st.externalDepart > STUCK_MS

\* whether the interval callback at time n sends external_task_stuck
HeartbeatStuck(st, n) ==
  /\ st.externalDepart # 0
  /\ n - st.externalDepart > STUCK_MS
  /\ ~st.externalNotified

\* the window's blur listener
Blur(d) ==
  /\ ops < MaxAwayOps
  /\ lastOp # <<"blur">>
  /\ now' = now + d
  /\ timer' = TimerPause(timer, now', "blur")
  /\ sessionTimer' = TimerPause(sessionTimer, now', "blur")
  /\ IF state.currentTaskType = "external"
       THEN /\ state' = startHeartbeat([state EXCEPT !.externalDepart = now'],
                                       ops + 1)
            /\ net' = SendToSheets(sheetsOn, net,
                        [Request("task_departed", state.sessionCode, now')
                           EXCEPT !.task = CurrentTaskName])
       ELSE UNCHANGED <<state, net>>
  /\ lastOp' = <<"blur">>
  /\ ops' = ops + 1
  /\ UNCHANGED <<dbOn, sheetsOn, dbDocs, dbPending, localStore, storageFull,
                 lastSave, lastResume, created>>
  /\ UNCHANGED <<hidden, live, starts, steps, prompts>>
  /\ UNCHANGED <<seqVars, serverVars>>

\* the window's focus listener
Focus(d) ==
  /\ ops < MaxAwayOps
  /\ lastOp = <<"blur">>
  /\ now' = now + d
  /\ sessionTimer' = TimerResume(sessionTimer, now')
  /\ IF state.currentTaskType = "external" /\ state.externalDepart # 0
       THEN /\ timer' = [TimerResume(timer, now') EXCEPT !.lastTick = now']
            /\ state' = stopHeartbeat([state EXCEPT !.externalDepart = 0])
            /\ net' = SendToSheets(sheetsOn, net,
                        [Request("task_returned", state.sessionCode, now')
                           EXCEPT !.task = CurrentTaskName,
                                  !.elapsed = RoundDiv(now' - state.externalDepart,
                                                       1000)])
       ELSE /\ timer' = TimerResume(timer, now')
            /\ UNCHANGED <<state, net>>
  /\ lastOp' = <<"focus">>
  /\ ops' = ops + 1
  /\ UNCHANGED <<dbOn, sheetsOn, dbDocs, dbPending, localStore, storageFull,
                 lastSave, lastResume, created>>
  /\ UNCHANGED <<hidden, live, starts, steps, prompts>>
  /\ UNCHANGED <<seqVars, serverVars>>

\* the callback of the interval startHeartbeat scheduled
Heartbeat ==
  /\ state.heartbeatInterval # 0
  /\ now + HEARTBEAT_MS - state.externalDepart <= MaxAwayMs
  /\ now' = now + HEARTBEAT_MS
  /\ \E stuck \in {HeartbeatStuck(state, now')} :
     \E beat \in {[Request("heartbeat", state.sessionCode, now')
                     EXCEPT !.task = CurrentTaskName]} :
       /\ state' = IF stuck THEN [state EXCEPT !.externalNotified = TRUE]
                            ELSE state
       /\ net' = IF stuck
                   THEN SendToSheets(sheetsOn,
                          SendToSheets(sheetsOn, net,
                            [Request("external_task_stuck", state.sessionCode,
                                     now')
                               EXCEPT !.task = CurrentTaskName,
                                      !.elapsed =
                                         RoundDiv(now' - state.externalDepart,
                                                  1000)]),
                          beat)
                   ELSE SendToSheets(sheetsOn, net, beat)
  /\ UNCHANGED <<dbOn, sheetsOn, dbDocs, dbPending, localStore, sessionTimer,
                 storageFull, lastSave, lastResume, created, lastOp, ops>>
  /\ UNCHANGED <<hidden, timer, live, starts, steps, prompts>>
  /\ UNCHANGED <<seqVars, serverVars>>

AwayNext ==
  \/ \E d \in AwayDeltas : Blur(d)
  \/ \E d \in AwayDeltas : Focus(d)
  \/ Heartbeat

SpecAway == AwayInit /\ [][AwayNext]_vars

\* C30: external_task_stuck is emitted only by a heartbeat at which the
\* current absence already exceeds 10 minutes, at most once between a
\* departure and the return, and a later absence can emit it again
C30_StuckOncePerAbsence ==
  [][ /\ StuckEvents' # StuckEvents
        => /\ ops' = ops
           /\ now' = now + HEARTBEAT_MS
           /\ state.externalDepart # 0
           /\ now' - state.externalDepart > STUCK_MS
           /\ Cardinality(StuckEvents') = Cardinality(StuckEvents) + 1
      /\ state'.externalDepart # 0
        => Cardinality({e \in StuckEvents' :
                          e.timestamp > state'.externalDepart}) <= 1
    ]_vars

\* the signal was emitted during a first absence and, after a return and a
\* new departure, a second time
C30_Witness ==
  /\ Cardinality(StuckEvents) = 2
  /\ state.externalDepart # 0
  /\ state.externalNotified
  /\ \E e \in StuckEvents : e.timestamp < state.externalDepart


(***************************************************************************)
(* Leaving the page while tasks are started and finished: the listeners    *)
(* and the heartbeat above, with startTask and completeTask / skipTask     *)
(* (called by a button or by the task-complete message of a task frame).   *)
(* The session object is never replaced here, so the interval that         *)
(* startHeartbeat scheduled is still scheduled exactly when                *)
(* state.heartbeatInterval holds its id.  lastOp keeps the last window     *)
(* event.                                                                  *)
(***************************************************************************)
AwaySequence == <<"ASLCT", "VCN", "RC", "MRT", "SN", "ID", "DEMO">>

\* task.type of TASKS
TaskType(taskCode) ==
  CASE taskCode \in {"ASLCT", "VCN", "DEMO"} -> "external"
    [] taskCode \in {"RC", "MRT", "SN"} -> "embed"
    [] OTHER -> "recording"

AwayTaskInit ==
  /\ TimerIdle /\ SeqIdle /\ ServerIdle
  /\ state = [AwayState("") EXCEPT !.sequence = AwaySequence]
  /\ dbOn = FALSE
  /\ sheetsOn = TRUE
  /\ dbDocs = [c \in SessionCodes |-> NoDoc]
  /\ dbPending = <<>>
  /\ localStore = [c \in SessionCodes |-> EmptyCell]
  /\ net = {}
  /\ sessionTimer = CreateTimer
  /\ storageFull = FALSE
  /\ lastSave = NoSave
  /\ lastResume = NoResume
  /\ created = NoCreated
  /\ lastOp = <<"load">>
  /\ ops = 0

\* startTask(state.sequence[state.currentTaskIndex]) from the progress screen
AwayStartTask(d) ==
  /\ ops < MaxAwayOps
  /\ state.currentTaskType = ""
  /\ state.currentTaskIndex < Len(state.sequence)
  /\ now' = now + d
  /\ \E taskCode \in {state.sequence[state.currentTaskIndex + 1]} :
       /\ state' = [state EXCEPT !.currentTaskType = TaskType(taskCode)]
       /\ net' = SendToSheets(sheetsOn, net,
                   [Request("task_started", state.sessionCode, now') EXCEPT
                      !.task = getStandardTaskName(taskCode),
                      !.mobile = state.isMobile, !.startTime = now'])
  /\ starts' = starts + 1
  /\ timer' = TimerStart(timer, now', starts')
  /\ live' = live \cup {starts'}
  /\ ops' = ops + 1
  /\ UNCHANGED <<dbOn, sheetsOn, dbDocs, dbPending, localStore, sessionTimer,
                 storageFull, lastSave, lastResume, created, lastOp>>
  /\ UNCHANGED <<hidden, steps, prompts>>
  /\ UNCHANGED <<seqVars, serverVars>>

\* completeTask(taskCode) (skip = FALSE) or skipTask(taskCode) (skip = TRUE)
\* for the task that is running
AwayLeaveTask(d, skip) ==
  /\ ops < MaxAwayOps
  /\ state.currentTaskType # ""
  /\ now' = now + d
  /\ timer' = TimerStop(timer, now')
  /\ live' = live \ {timer.intervalId}
  /\ \E taskCode \in {state.sequence[state.currentTaskIndex + 1]} :
     \E st1 \in {IF skip THEN SkipTaskState(state, taskCode)
                 ELSE CompleteTaskState(state, taskCode,
                                        GetSummary(timer', now').elapsed)} :
     \E sv \in {SaveState(st1, now', dbOn, sheetsOn, dbPending, localStore,
                          net, storageFull)} :
     \E event \in {IF skip
                     THEN [Request("task_skipped", state.sessionCode, now')
                             EXCEPT !.task = getStandardTaskName(taskCode),
                                    !.reason = IF taskCode = "ASLCT"
                                                 THEN "Does not know ASL"
                                                 ELSE "User chose to skip"]
                     ELSE TimerPayload(IF Skilled(taskCode)
                                         THEN "skilled_task_completed"
                                         ELSE "task_completed",
                                       sv.state, getStandardTaskName(taskCode),
                                       timer', now')} :
         /\ state' = [sv.state EXCEPT !.currentTaskType = ""]
         /\ dbPending' = sv.dbPending
         /\ localStore' = sv.localStore
         /\ net' = SendToSheets(sheetsOn,
                     SendToSheets(sheetsOn, sv.net, event),
                     TimerPayload("session_timer", sv.state, "", sessionTimer,
                                  now'))
         /\ lastSave' = sv.save
  /\ ops' = ops + 1
  /\ UNCHANGED <<dbOn, sheetsOn, dbDocs, sessionTimer, storageFull, lastResume,
                 created, lastOp>>
  /\ UNCHANGED <<hidden, starts, steps, prompts>>
  /\ UNCHANGED <<seqVars, serverVars>>

AwayTaskNext ==
  \/ \E d \in AwayDeltas : AwayStartTask(d)
  \/ \E d \in AwayDeltas, skip \in BOOLEAN : AwayLeaveTask(d, skip)
  \/ \E d \in AwayDeltas : Blur(d)
  \/ \E d \in AwayDeltas : Focus(d)
  \/ Heartbeat

SpecAwayTask == AwayTaskInit /\ [][AwayTaskNext]_vars

\* C31: the heartbeat runs only while the window is away from an external
\* task: whenever the last window event is not a blur (the page was just
\* loaded or the window has regained focus), no heartbeat interval is
\* scheduled
C31_HeartbeatOnlyWhileAway ==
  lastOp # <<"blur">> => state.heartbeatInterval = 0


(***************************************************************************)
(* Progress through the sequence: a newly created session on which         *)
(* completeTask and skipTask are called, by the buttons for the task on    *)
(* offer or by a task-complete message naming any known task.  A call      *)
(* that names another task than the one on offer is explored from the      *)
(* states in which every earlier call advanced by one and found its task   *)
(* not yet completed.                                                      *)
(***************************************************************************)
MaxProgressOps == 7
ProgressDeltas == {1000}

\* the session object createNewSession builds for a device class
NewSession(mobile) ==
  [InitialState EXCEPT !.sessionCode = ServerCode, !.isMobile = mobile,
                       !.sequence = SessionSequences[ServerCode, mobile],
                       !.lastActivity = 1]

ProgressInit ==
  /\ TimerIdle /\ SeqIdle /\ ServerIdle
  /\ \E mobile \in BOOLEAN : state = NewSession(mobile)
  /\ dbOn = FALSE
  /\ sheetsOn = FALSE
  /\ dbDocs = [c \in SessionCodes |-> NoDoc]
  /\ dbPending = <<>>
  /\ localStore = [c \in SessionCodes |-> EmptyCell]
  /\ net = {}
  /\ sessionTimer = CreateTimer
  /\ storageFull = FALSE
  /\ lastSave = NoSave
  /\ lastResume = NoResume
  /\ created = NoCreated
  /\ lastOp = <<"load">>
  /\ ops = 0

\* the task the progress screen offers, "" when the sequence is finished
TaskOnOffer ==
  IF state.currentTaskIndex < Len(state.sequence)
    THEN state.sequence[state.currentTaskIndex + 1] ELSE ""

\* every call so far advanced currentTaskIndex by one and added a task to
\* completedTasks
AdvancedByOne ==
  /\ state.currentTaskIndex = ops
  /\ Len(state.completedTasks) = ops

\* the task codes a call can name in this state
ProgressTasks ==
  IF AdvancedByOne THEN {c \in TaskCodes : Contains(state.sequence, c)}
  ELSE {TaskOnOffer} \ {""}

ProgressComplete(d, taskCode) ==
  /\ ops < MaxProgressOps
  /\ taskCode \in ProgressTasks
  /\ completeTask(d, taskCode)

ProgressSkip(d, taskCode) ==
  /\ ops < MaxProgressOps
  /\ taskCode \in ProgressTasks
  /\ skipTask(d, taskCode)

ProgressNext ==
  \/ \E d \in ProgressDeltas, taskCode \in TaskCodes :
       ProgressComplete(d, taskCode)
  \/ \E d \in ProgressDeltas, taskCode \in TaskCodes :
       ProgressSkip(d, taskCode)

SpecProgress == ProgressInit /\ [][ProgressNext]_vars


\* C32: every completeTask or skipTask call on a known task leaves
\* currentTaskIndex at or past its old value, and either at or past the end
\* of the sequence or on a task that is not in completedTasks
C32_IndexPastCompleted ==
  [][ ops' = ops + 1
        => /\ state'.currentTaskIndex >= state.currentTaskIndex
           /\ \/ state'.currentTaskIndex >= Len(state'.sequence)
              \/ ~Contains(state'.completedTasks,
                           state'.sequence[state'.currentTaskIndex + 1])
    ]_vars

\* a call has moved currentTaskIndex over a task completed out of turn, and
\* tasks remain
C32_Witness ==
  /\ lastOp[1] \in {"completeTask", "skipTask"}
  /\ state.currentTaskIndex > ops
  /\ state.currentTaskIndex < Len(state.sequence)

\* C36: when currentTaskIndex has reached the end of the sequence (the
\* completion screen is shown), every task of the sequence is in
\* completedTasks
C36_FinishedMeansAllCompleted ==
  state.currentTaskIndex >= Len(state.sequence)
    => \A i \in 1..Len(state.sequence) :
         Contains(state.completedTasks, state.sequence[i])

NoDuplicates(seq) == Cardinality({seq[i] : i \in 1..Len(seq)}) = Len(seq)

\* C37: skippedTasks is a subset of completedTasks and neither list holds a
\* task code twice
C37_SkippedWithinCompleted ==
  /\ \A i \in 1..Len(state.skippedTasks) :
       Contains(state.completedTasks, state.skippedTasks[i])
  /\ NoDuplicates(state.completedTasks)
  /\ NoDuplicates(state.skippedTasks)

\* some call named a task that was completed already, some task is skipped
\* and some task is completed and not skipped
C37_Witness ==
  /\ ops > Len(state.completedTasks)
  /\ state.skippedTasks # <<>>
  /\ Len(state.completedTasks) > Len(state.skippedTasks)

\* after ops calls that each named the task on offer: currentTaskIndex is
\* ops and completedTasks is the first ops tasks of the sequence
InTurn ==
  /\ ops <= Len(state.sequence)
  /\ state.currentTaskIndex = ops
  /\ state.completedTasks = SubSeq(state.sequence, 1, ops)

\* C40: completing or skipping the task on offer, starting from a new
\* session, presents the tasks one by one in sequence order: each such call
\* moves currentTaskIndex to the next task, so after sequence.length calls
\* currentTaskIndex is sequence.length and nothing is on offer
C40_InOrderFinishes ==
  [][ (InTurn /\ ops' = ops + 1 /\ TaskOnOffer # "" /\ lastOp'[2] = TaskOnOffer)
        => /\ InTurn'
           /\ ops' = Len(state'.sequence)
                => state'.currentTaskIndex = Len(state'.sequence)
    ]_vars

\* the end of the sequence reached by sequence.length calls in order, some
\* of them skips
C40_Witness ==
  /\ InTurn
  /\ ops = Len(state.sequence)
  /\ TaskOnOffer = ""
  /\ state.skippedTasks # <<>>
  /\ Len(state.skippedTasks) < ops


\* the timestamps of the Task Progress rows and Session Events of the
\* session that parse (0 stands for a cell that does not)
ParsedLogTimes ==
  {t \in {LogTimes(sheet, ServerCode)[i] :
            i \in 1..Len(LogTimes(sheet, ServerCode))} : t # 0}

\* C33: the window computeSessionWindowMs_ returns has startMs <= endMs,
\* contains every parseable timestamp logged for the session, starts at or
\* before the row's Created Date and ends at or after its Last Activity
C33_WindowContainsTimestamps ==
  \A w \in {computeSessionWindowMs_(sheet, ServerCode, now)} :
    /\ w.startMs <= w.endMs
    /\ \A t \in ParsedLogTimes : w.startMs <= t /\ t <= w.endMs
    /\ sheet.rows[ServerCode].exists
         => /\ parseTsMs_(sheet.rows[ServerCode].created) # 0
                 => w.startMs <= parseTsMs_(sheet.rows[ServerCode].created)
            /\ parseTsMs_(sheet.rows[ServerCode].lastActivity) # 0
                 => parseTsMs_(sheet.rows[ServerCode].lastActivity) <= w.endMs

\* requests were handled out of order: the row's Last Activity is earlier
\* than a logged timestamp, and the window is wider than the row's two dates
C33_Witness ==
  /\ sheet.rows[ServerCode].exists
  /\ \E t \in ParsedLogTimes :
       parseTsMs_(sheet.rows[ServerCode].lastActivity) < t
  /\ sheet.rows[ServerCode].created # 0
  /\ computeSessionWindowMs_(sheet, ServerCode, now).endMs
       > parseTsMs_(sheet.rows[ServerCode].lastActivity)


\* C34: a resume whose read of the configured primary store fails, while
\* the legacy store is configured and holds the session, loads the session
\* from the legacy store
C34_ResumeFallsBackOnReadError ==
  ( /\ lastResume.done
    /\ lastResume.outcome # "invalid"
    /\ dbOn /\ lastResume.failed
    /\ sheetsOn /\ lastResume.legacyHad )
  => /\ lastResume.outcome = "legacy"
     /\ lastResume.after.sessionCode = lastResume.code


\* C35: while the timer is paused for 'manual', a visibilitychange event or
\* an input event (recordActivity) leaves it paused for 'manual'; only
\* resumeStudy ends a manual pause
C35_ManualPauseUntilResumeStudy ==
  [][ \A d \in Deltas :
        ( /\ Running(timer)
          /\ timer.isPaused /\ timer.pauseReason = "manual"
          /\ VisibilityChange(d) \/ RecordActivity(d) )
        => timer'.isPaused /\ timer'.pauseReason = "manual"
    ]_vars


\* C38: a session_created request handled for a session whose row the same
\* request created before (same code, timestamp and device class) leaves
\* the row's State JSON, Tasks Completed, Status and time totals as they
\* were
C38_DuplicateCreateHarmless ==
  [][ ( /\ served' = served + 1
        /\ lastReq'.action = "session_created"
        /\ lastResp'.success
        /\ sheet.rows[lastReq'.sessionCode].exists
        /\ sheet.rows[lastReq'.sessionCode].created = lastReq'.timestamp
        /\ sheet.rows[lastReq'.sessionCode].mobile = lastReq'.mobile )
      => \A c \in {lastReq'.sessionCode} :
           /\ sheet'.rows[c].stateJSON = sheet.rows[c].stateJSON
           /\ sheet'.rows[c].done = sheet.rows[c].done
           /\ sheet'.rows[c].total = sheet.rows[c].total
           /\ sheet'.rows[c].status = sheet.rows[c].status
           /\ Totals(sheet', c) = Totals(sheet, c)
    ]_vars


\* C39: handling the session_resumed request that was handled just before
\* (the same body once more) leaves Paused Time (min) and Idle Time (min) of
\* the session's row as the first delivery left them
C39_DuplicateResumeHarmless ==
  [][ ( /\ served' = served + 1
        /\ lastReq.action = "session_resumed"
        /\ lastReq' = lastReq
        /\ lastResp.success /\ lastResp'.success )
      => /\ sheet'.rows[lastReq.sessionCode].pausedMin
              = sheet.rows[lastReq.sessionCode].pausedMin
         /\ sheet'.rows[lastReq.sessionCode].idleMin
              = sheet.rows[lastReq.sessionCode].idleMin
    ]_vars

====
